---- MODULE Spec2Model ----
(***************************************************************************)
(* A model of the HYBF codec (src/src/hybf): the type analyzer, the        *)
(* minimal and compressed container writers and readers, the per-column    *)
(* encodings, the bit-packed dictionary codec and the format factory.      *)
(*                                                                         *)
(* Bytes are numbers 0..255 and a stream is a sequence of bytes.  A 64-bit *)
(* integer is kept as four 16-bit limbs in two's complement, most          *)
(* significant limb first, so that the full int64 range and the wrap-      *)
(* around of numpy's astype are represented exactly.                       *)
(***************************************************************************)
EXTENDS Integers, Sequences, FiniteSets, TLC

VARIABLES
    df,          \* the in-memory table handed to a writer: a sequence of columns
    memory,      \* what df.memory_usage(deep=True) reports: [index, cols]
    file,        \* the byte stream (the writer's sink, the reader's source)
    pos,         \* the stream position of `file`
    pc,          \* where the current call stands
    writer,      \* the writer object in use: "none", "MinimalWriter" or "CompressedWriter"
    selector,    \* the writer's compression_selector (its two thresholds)
    columns,     \* the `columns` list of the running write or read
    reader,      \* the reader object in use: "none", "MinimalReader" or "CompressedReader"
    header,      \* what the reader took from the header: [version, format_type, num_columns]
    rows,        \* the row_count the reader took from the stream
    arrays,      \* the reader's `data`: the arrays decoded so far
    idx,         \* the column the running loop is at, from 1
    result,      \* outcome of the last call: [err, table]
    series,      \* a single column under analysis or encoding
    stored,      \* scratch result of the call on `series`
    opened,      \* how the reader was obtained and where the stream stood: [by, at]
    calls        \* how many further calls the writer or reader object has been used for

vars == <<df, memory, file, pos, pc, writer, selector, columns, reader, header,
          rows, arrays, idx, result, series, stored, opened, calls>>

(***************************************************************************)
(* Bounds of the model.                                                    *)
(***************************************************************************)
MaxInts == 2

(***************************************************************************)
(* Generic helpers.                                                        *)
(***************************************************************************)
Byte == 0..255

RECURSIVE Flatten(_)
Flatten(ss) == IF ss = <<>> THEN <<>> ELSE Head(ss) \o Flatten(Tail(ss))

RECURSIVE SumSeq(_)
SumSeq(s) == IF s = <<>> THEN 0 ELSE Head(s) + SumSeq(Tail(s))

SeqsUpTo(S, lo, hi) == UNION {[1..n -> S] : n \in lo..hi}

Pow2(n) == 2 ^ n

\* struct.pack('>H', n)
U16BE(n) == <<n \div 256, n % 256>>

\* struct.pack('>I', n)
U32BE(n) == <<n \div 16777216, (n \div 65536) % 256, (n \div 256) % 256, n % 256>>

(***************************************************************************)
(* 64-bit integers as limbs.                                               *)
(***************************************************************************)
Limb == 0..65535

\* The limbs of a number small enough to be written directly.
FromInt(n) ==
    LET lo == n % 65536
        hi == (n \div 65536) % 65536
        ext == IF n < 0 THEN 65535 ELSE 0
    IN  <<ext, ext, hi, lo>>

\* The top limb read as a signed number.
TopSigned(x) == IF x[1] >= 32768 THEN x[1] - 65536 ELSE x[1]

\* x <= y on the integers the limbs stand for.
IntLeq(x, y) ==
    LET a == <<TopSigned(x), x[2], x[3], x[4]>>
        b == <<TopSigned(y), y[2], y[3], y[4]>>
    IN  \/ a = b
        \/ \E i \in 1..4 : a[i] < b[i] /\ \A j \in 1..(i - 1) : a[j] = b[j]

IntGeq(x, y) == IntLeq(y, x)

\* The eight bytes of x, least significant first (numpy's native layout).
BytesLE(x) ==
    <<x[4] % 256, x[4] \div 256, x[3] % 256, x[3] \div 256,
      x[2] % 256, x[2] \div 256, x[1] % 256, x[1] \div 256>>

\* struct.pack('>q', x)
BytesBE(x) ==
    <<x[1] \div 256, x[1] % 256, x[2] \div 256, x[2] % 256,
      x[3] \div 256, x[3] % 256, x[4] \div 256, x[4] % 256>>

\* The limbs of eight little-endian bytes.
LimbsOfLE(b) ==
    <<b[8] * 256 + b[7], b[6] * 256 + b[5], b[4] * 256 + b[3], b[2] * 256 + b[1]>>

\* The limbs of eight big-endian bytes.
LimbsOfBE(b) ==
    <<b[1] * 256 + b[2], b[3] * 256 + b[4], b[5] * 256 + b[6], b[7] * 256 + b[8]>>

(***************************************************************************)
(* Values.  A cell of a column is a record [k, n, s]:                      *)
(*   null     None / pd.NA                                                 *)
(*   int      n = the limbs of the integer                                 *)
(*   float    n = the limbs of the IEEE-754 double bit pattern             *)
(*   float32  n = the two limbs of the IEEE-754 single bit pattern         *)
(*   bool     n = <<0>> or <<1>> (the byte numpy stores)                   *)
(*   str      s = the UTF-8 bytes of the string                            *)
(***************************************************************************)
Null == [k |-> "null", n |-> <<>>, s |-> <<>>]
IntV(x) == [k |-> "int", n |-> x, s |-> <<>>]
FloatV(x) == [k |-> "float", n |-> x, s |-> <<>>]
Float32V(x) == [k |-> "float32", n |-> x, s |-> <<>>]
BoolV(b) == [k |-> "bool", n |-> <<b>>, s |-> <<>>]
StrV(b) == [k |-> "str", n |-> <<>>, s |-> b]

\* Exponent and mantissa tests on the bit patterns.
F64Exp(x) == (x[1] % 32768) \div 16
F64MantZero(x) == x[1] % 16 = 0 /\ x[2] = 0 /\ x[3] = 0 /\ x[4] = 0
F64IsNaN(x) == F64Exp(x) = 2047 /\ ~F64MantZero(x)
F64IsInf(x) == F64Exp(x) = 2047 /\ F64MantZero(x)
F32IsNaN(x) == (x[1] % 32768) \div 128 = 255 /\ (x[1] % 128 # 0 \/ x[2] # 0)

\* pd.isna(value)
IsNa(v) ==
    \/ v.k = "null"
    \/ v.k = "float" /\ F64IsNaN(v.n)
    \/ v.k = "float32" /\ F32IsNaN(v.n)

\* series.dropna()
DropNa(vals) == SelectSeq(vals, LAMBDA v : ~IsNa(v))

\* series.isna().any()
AnyNa(vals) == \E i \in 1..Len(vals) : IsNa(vals[i])

\* series.isna().all()
AllNa(vals) == \A i \in 1..Len(vals) : IsNa(vals[i])

\* series.isna().sum()
CountNa(vals) == Cardinality({i \in 1..Len(vals) : IsNa(vals[i])})

(***************************************************************************)
(* numpy conversions (ndarray.astype, ndarray.tobytes, np.frombuffer).     *)
(***************************************************************************)
IntDtypes == {"uint8", "uint16", "uint32", "int8", "int16", "int32", "int64"}

\* dtype.itemsize
ItemSize(dtype) ==
    CASE dtype \in {"uint8", "int8", "bool"} -> 1
      [] dtype \in {"uint16", "int16"} -> 2
      [] dtype \in {"uint32", "int32", "float32"} -> 4
      [] dtype \in {"int64", "float64"} -> 8

\* An integer cast to an integer dtype: the low bits are kept (C wrap-around)
\* and read back in the signedness of the dtype.
WrapInt(x, dtype) ==
    LET b == x[4] % 256
    IN  CASE dtype = "uint8" -> <<0, 0, 0, b>>
          [] dtype = "int8" ->
                IF b >= 128 THEN <<65535, 65535, 65535, 65280 + b>> ELSE <<0, 0, 0, b>>
          [] dtype = "uint16" -> <<0, 0, 0, x[4]>>
          [] dtype = "int16" ->
                IF x[4] >= 32768 THEN <<65535, 65535, 65535, x[4]>> ELSE <<0, 0, 0, x[4]>>
          [] dtype = "uint32" -> <<0, 0, x[3], x[4]>>
          [] dtype = "int32" ->
                IF x[3] >= 32768 THEN <<65535, 65535, x[3], x[4]>> ELSE <<0, 0, x[3], x[4]>>
          [] dtype = "int64" -> x

\* A double rounded to single precision (round to nearest, ties to even;
\* overflow gives infinity).  Doubles whose single image would be subnormal
\* but not zero are outside the input pools of the model.
F64ToF32(x) ==
    LET sign == x[1] \div 32768
        e == F64Exp(x)
        mant == (x[1] % 16) * 524288 + x[2] * 8 + (x[3] \div 8192)
        rest == (x[3] % 8192) * 65536 + x[4]
        up == rest > 268435456 \/ (rest = 268435456 /\ mant % 2 = 1)
        m1 == IF up THEN mant + 1 ELSE mant
        carry == IF m1 = 8388608 THEN 1 ELSE 0
        m2 == IF m1 = 8388608 THEN 0 ELSE m1
        e32 == e - 896 + carry
        pack(ee, mm) == <<sign * 32768 + ee * 128 + (mm \div 65536), mm % 65536>>
    IN  IF e = 2047
        THEN IF F64MantZero(x) THEN pack(255, 0)
             ELSE pack(255, 4194304 + (mant % 4194304))
        ELSE IF e32 >= 255 THEN pack(255, 0)
        ELSE IF e32 <= 0 THEN pack(0, 0)
        ELSE pack(e32, m2)

\* A single-precision value widened to double (exact).  Subnormal singles
\* are outside the pools.
F32ToF64(x) ==
    LET sign == x[1] \div 32768
        e == (x[1] % 32768) \div 128
        m == (x[1] % 128) * 65536 + x[2]
        e64 == IF e = 255 THEN 2047 ELSE IF e = 0 THEN 0 ELSE e + 896
    IN  <<sign * 32768 + e64 * 16 + (m \div 524288),
          (m % 524288) \div 8, (m % 8) * 8192, 0>>

\* One cell converted by ndarray.astype(dtype).
AsTypeVal(v, dtype) ==
    CASE v.k = "int" /\ dtype \in IntDtypes -> IntV(WrapInt(v.n, dtype))
      [] v.k = "bool" /\ dtype \in IntDtypes -> IntV(<<0, 0, 0, v.n[1]>>)
      [] v.k = "bool" /\ dtype = "bool" -> v
      [] v.k = "float" /\ dtype = "float64" -> v
      [] v.k = "float" /\ dtype = "float32" -> Float32V(F64ToF32(v.n))
      [] v.k = "float32" /\ dtype = "float32" -> v
      [] v.k = "float32" /\ dtype = "float64" -> FloatV(F32ToF64(v.n))

\* ndarray.astype(dtype) on a numeric array.
AsType(vals, dtype) == [i \in 1..Len(vals) |-> AsTypeVal(vals[i], dtype)]

\* The bytes numpy keeps for one cell of an array of the given dtype.
CellBytes(v, dtype) ==
    CASE dtype \in IntDtypes -> SubSeq(BytesLE(v.n), 1, ItemSize(dtype))
      [] dtype = "bool" -> <<v.n[1]>>
      [] dtype = "float64" -> BytesLE(v.n)
      [] dtype = "float32" ->
            <<v.n[2] % 256, v.n[2] \div 256, v.n[1] % 256, v.n[1] \div 256>>

\* ndarray.tobytes()
ToBytes(vals, dtype) == Flatten([i \in 1..Len(vals) |-> CellBytes(vals[i], dtype)])

\* One cell of np.frombuffer(data, dtype): b holds ItemSize(dtype) bytes.
CellOfBytes(b, dtype) ==
    CASE dtype = "uint8" -> IntV(<<0, 0, 0, b[1]>>)
      [] dtype = "int8" -> IntV(WrapInt(<<0, 0, 0, b[1]>>, "int8"))
      [] dtype = "uint16" -> IntV(<<0, 0, 0, b[2] * 256 + b[1]>>)
      [] dtype = "int16" -> IntV(WrapInt(<<0, 0, 0, b[2] * 256 + b[1]>>, "int16"))
      [] dtype = "uint32" -> IntV(<<0, 0, b[4] * 256 + b[3], b[2] * 256 + b[1]>>)
      [] dtype = "int32" ->
            IntV(WrapInt(<<0, 0, b[4] * 256 + b[3], b[2] * 256 + b[1]>>, "int32"))
      [] dtype = "int64" -> IntV(LimbsOfLE(b))
      [] dtype = "float64" -> FloatV(LimbsOfLE(b))
      [] dtype = "float32" -> Float32V(<<b[4] * 256 + b[3], b[2] * 256 + b[1]>>)
      [] dtype = "bool" -> BoolV(b[1])

\* np.frombuffer(data, dtype) for data holding a whole number of cells.
FromBuffer(data, dtype) ==
    LET w == ItemSize(dtype)
    IN  [i \in 1..(Len(data) \div w) |->
            CellOfBytes(SubSeq(data, (i - 1) * w + 1, i * w), dtype)]

(***************************************************************************)
(* core/types.py and core/dtypes.py: the type enumerations.                *)
(***************************************************************************)
\* LogicalType.from_numpy / DataType.from_numpy: the six mapped dtypes, and
\* STRING for every other dtype.
from_numpy(dtype) ==
    CASE dtype = "int32" -> "INT32"
      [] dtype = "int64" -> "INT64"
      [] dtype = "float32" -> "FLOAT32"
      [] dtype = "float64" -> "FLOAT64"
      [] dtype = "bool" -> "BOOLEAN"
      [] dtype = "object" -> "STRING"
      [] OTHER -> "STRING"

\* LogicalType.to_numpy / DataType.to_numpy
to_numpy(t) ==
    CASE t = "INT32" -> "int32"
      [] t = "INT64" -> "int64"
      [] t = "FLOAT32" -> "float32"
      [] t = "FLOAT64" -> "float64"
      [] t = "BOOLEAN" -> "bool"
      [] t = "STRING" -> "object"

\* The enum values written to the column directory (DataType, and
\* LogicalType whose auto() numbering is the same).
TypeValue(t) ==
    CASE t = "INT32" -> 1
      [] t = "INT64" -> 2
      [] t = "FLOAT32" -> 3
      [] t = "FLOAT64" -> 4
      [] t = "STRING" -> 5
      [] t = "BOOLEAN" -> 6

\* DataType(value) / LogicalType(value); "invalid" stands for the ValueError
\* the enum raises on a number it does not hold.
TypeOfValue(b) ==
    CASE b = 1 -> "INT32"
      [] b = 2 -> "INT64"
      [] b = 3 -> "FLOAT32"
      [] b = 4 -> "FLOAT64"
      [] b = 5 -> "STRING"
      [] b = 6 -> "BOOLEAN"
      [] OTHER -> "invalid"

\* StorageType.get_numpy_dtype
get_numpy_dtype(st) ==
    CASE st = "UINT8" -> "uint8"
      [] st = "UINT16" -> "uint16"
      [] st = "UINT32" -> "uint32"
      [] st = "INT8" -> "int8"
      [] st = "INT16" -> "int16"
      [] st = "INT32" -> "int32"
      [] st = "INT64" -> "int64"
      [] st = "FLOAT32" -> "float32"
      [] st = "FLOAT64" -> "float64"
      [] st = "BOOL" -> "bool"
      [] st = "STRING" -> "object"

(***************************************************************************)
(* core/types.py: TypeAnalyzer and TypeConverter.                          *)
(***************************************************************************)
RECURSIVE IntMin(_)
IntMin(xs) ==
    IF Len(xs) = 1 THEN xs[1]
    ELSE LET m == IntMin(Tail(xs)) IN IF IntLeq(xs[1], m) THEN xs[1] ELSE m

RECURSIVE IntMax(_)
IntMax(xs) ==
    IF Len(xs) = 1 THEN xs[1]
    ELSE LET m == IntMax(Tail(xs)) IN IF IntLeq(m, xs[1]) THEN xs[1] ELSE m

\* The limbs of the non-null integers of a column.
IntsOf(vals) == LET nn == DropNa(vals) IN [i \in 1..Len(nn) |-> nn[i].n]

\* A mutation of the analyzer: the unsigned ranges are tried on max alone.
IntegerStorageIgnoringMin(vals) ==
    LET non_null == IntsOf(vals)
        max_val == IntMax(non_null)
    IN  IF Len(non_null) = 0 THEN "INT32"
        ELSE IF IntLeq(max_val, FromInt(255)) THEN "UINT8"
        ELSE IF IntLeq(max_val, FromInt(65535)) THEN "UINT16"
        ELSE IF IntLeq(max_val, <<0, 0, 65535, 65535>>) THEN "UINT32"
        ELSE "INT64"

\* TypeAnalyzer._analyze_integer_storage
analyze_integer_storage(vals) ==
    LET non_null == IntsOf(vals)
        min_val == IntMin(non_null)
        max_val == IntMax(non_null)
        unsigned ==
            IF IntGeq(min_val, FromInt(0))
            THEN IF IntLeq(max_val, FromInt(255)) THEN "UINT8"
                 ELSE IF IntLeq(max_val, FromInt(65535)) THEN "UINT16"
                 ELSE IF IntLeq(max_val, <<0, 0, 65535, 65535>>) THEN "UINT32"
                 ELSE "none"
            ELSE "none"
    IN  IF Len(non_null) = 0 THEN "INT32"
        ELSE IF unsigned # "none" THEN unsigned
        ELSE IF IntGeq(min_val, FromInt(-128)) /\ IntLeq(max_val, FromInt(127))
             THEN "INT8"
        ELSE IF IntGeq(min_val, FromInt(-32768)) /\ IntLeq(max_val, FromInt(32767))
             THEN "INT16"
        ELSE IF IntGeq(min_val, <<65535, 65535, 32768, 0>>)
                /\ IntLeq(max_val, <<0, 0, 32767, 65535>>)
             THEN "INT32"
        ELSE "INT64"

\* np.allclose(x, x.astype(float32), rtol=1e-6) for one non-null double: a
\* finite double and its single image differ by at most 2^-24 relative
\* unless the conversion overflowed to infinity; equal infinities are close.
CloseAsF32(x) ==
    LET y == F64ToF32(x)
        yInf == (y[1] % 32768) \div 128 = 255 /\ y[1] % 128 = 0 /\ y[2] = 0
    IN  F64IsInf(x) \/ ~yInf

\* TypeAnalyzer._analyze_float_storage: the null positions are those of the
\* float32 image (NaN stays NaN) and every non-null value must be close.
analyze_float_storage(vals) ==
    IF \A i \in 1..Len(vals) :
           IsNa(vals[i]) \/ (vals[i].k = "float32" \/ CloseAsF32(vals[i].n))
    THEN "FLOAT32"
    ELSE "FLOAT64"

\* TypeAnalyzer.analyze_series: a column is [name, dtype, values].
analyze_series(col) ==
    LET logical_type == from_numpy(col.dtype)
    IN  [name |-> col.name,
         logical_type |-> logical_type,
         storage_type |->
            IF logical_type \in {"INT32", "INT64"}
            THEN analyze_integer_storage(col.values)
            ELSE IF logical_type \in {"FLOAT32", "FLOAT64"}
            THEN analyze_float_storage(col.values)
            ELSE IF logical_type = "BOOLEAN" THEN "BOOL" ELSE "STRING",
         nullable |-> AnyNa(col.values)]

\* TypeConverter.to_storage_type for a numeric column: [dtype, values].
to_storage_type(vals, type_info) ==
    LET dtype == get_numpy_dtype(type_info.storage_type)
    IN  [dtype |-> dtype, values |-> AsType(vals, dtype)]

\* TypeConverter.from_storage_type for a numeric column.
from_storage_type(arr, type_info) ==
    LET dtype == to_numpy(type_info.logical_type)
    IN  [dtype |-> dtype, values |-> AsType(arr.values, dtype)]

(***************************************************************************)
(* Results of writing: the bytes put out and the exception raised, if any. *)
(***************************************************************************)
Ok(b) == [err |-> "none", bytes |-> b]
Fail(e, b) == [err |-> e, bytes |-> b]

\* Two writes in a row: the second runs only if the first raised nothing.
Then(a, b) == IF a.err # "none" THEN a ELSE [err |-> b.err, bytes |-> a.bytes \o b.bytes]

RECURSIVE ThenAll(_)
ThenAll(rs) == IF rs = <<>> THEN Ok(<<>>) ELSE Then(Head(rs), ThenAll(Tail(rs)))

\* The decimal digits of a natural number below 2^31, as ASCII.
RECURSIVE Digits(_)
Digits(n) == IF n < 10 THEN <<48 + n>> ELSE Digits(n \div 10) \o <<48 + (n % 10)>>

\* str(value).encode('utf-8') for the values the pools hold: strings, the
\* numpy booleans of a bool column, and integers of magnitude below 2^31.
StrBytes(v) ==
    CASE v.k = "str" -> v.s
      [] v.k = "bool" ->
            IF v.n[1] = 1 THEN <<84, 114, 117, 101>> ELSE <<70, 97, 108, 115, 101>>
      [] v.k = "int" ->
            IF v.n[1] = 0 THEN Digits(v.n[3] * 65536 + v.n[4])
            ELSE <<45>> \o Digits((65535 - v.n[3]) * 65536 + (65535 - v.n[4]) + 1)

\* The bitmap the writers build: bit (i mod 8) of byte (i div 8), rows
\* counted from 0, is set iff the row is null.
NullBitmap(vals) ==
    [j \in 1..((Len(vals) + 7) \div 8) |->
        SumSeq([b \in 1..8 |->
            LET i == (j - 1) * 8 + b
            IN  IF i <= Len(vals) /\ IsNa(vals[i]) THEN Pow2(b - 1) ELSE 0])]

(***************************************************************************)
(* formats/compressed.py: CompressionSelector.                             *)
(***************************************************************************)
\* The defaults of CompressionSelector.__init__, as fractions: 0.1 and 0.5.
DefaultSelector == [uniqueness_threshold |-> [num |-> 1, den |-> 10],
                    redundancy_threshold |-> [num |-> 1, den |-> 2]]

\* np.issubdtype(dtype, np.number)
IsNumberDtype(dtype) == dtype \in IntDtypes \cup {"float32", "float64"}

\* `value == current_value` on two cells of a numeric column: NaN equals nothing.
RunEq(a, b) == a = b /\ ~IsNa(a)

\* CompressionSelector._calculate_runs: a sequence of [value, count].
RECURSIVE RunsFrom(_, _, _)
RunsFrom(rest, current_value, current_count) ==
    IF rest = <<>> THEN <<[value |-> current_value, count |-> current_count]>>
    ELSE IF RunEq(Head(rest), current_value)
         THEN RunsFrom(Tail(rest), current_value, current_count + 1)
         ELSE <<[value |-> current_value, count |-> current_count]>>
                  \o RunsFrom(Tail(rest), Head(rest), 1)

calculate_runs(vals) == RunsFrom(Tail(vals), vals[1], 1)

\* The distinct non-null values (the index of series.value_counts()).
DistinctValues(vals) == {vals[i] : i \in {j \in 1..Len(vals) : ~IsNa(vals[j])}}

CountOf(vals, v) == Cardinality({i \in 1..Len(vals) : vals[i] = v})

\* The orders value_counts() may list the distinct values in: by falling
\* count, values of equal count in either order.
ValueCountOrders(vals) ==
    LET D == DistinctValues(vals)
        n == Cardinality(D)
    IN  {o \in [1..n -> D] :
            /\ \A i, j \in 1..n : i # j => o[i] # o[j]
            /\ \A i \in 1..(n - 1) : CountOf(vals, o[i]) >= CountOf(vals, o[i + 1])}

\* CompressionSelector.select_strategy; `order` is the order value_counts()
\* lists the distinct values in.  The result is [type, metadata].
select_strategy(sel, col, order) ==
    LET vals == col.values
        k == Cardinality(DistinctValues(vals))
    IN  IF AllNa(vals) THEN [type |-> "NULL", metadata |-> <<>>]
        ELSE IF Len(DropNa(vals)) > 0 /\ k = 1 /\ CountNa(vals) = 0
             THEN [type |-> "SINGLE_VALUE", metadata |-> vals[1]]
        ELSE IF col.dtype = "object"
                /\ k * sel.uniqueness_threshold.den
                       <= sel.uniqueness_threshold.num * Len(vals)
             THEN [type |-> "DICTIONARY", metadata |-> order]
        ELSE IF IsNumberDtype(col.dtype)
                /\ Len(calculate_runs(vals)) * sel.redundancy_threshold.den
                       <= sel.redundancy_threshold.num * Len(vals)
             THEN [type |-> "RLE", metadata |-> <<>>]
        ELSE [type |-> "RAW", metadata |-> <<>>]

\* CompressionType.value
CompressionValue(t) ==
    CASE t = "RAW" -> 1
      [] t = "RLE" -> 2
      [] t = "DICTIONARY" -> 3
      [] t = "SINGLE_VALUE" -> 4
      [] t = "NULL" -> 5

(***************************************************************************)
(* Reading from a buffer: `data` with a position p (bytes consumed so      *)
(* far).  A read of n bytes returns what is left when fewer remain.        *)
(***************************************************************************)
Avail(data, p, n) ==
    SubSeq(data, p + 1, IF p + n <= Len(data) THEN p + n ELSE Len(data))

\* The outcome of a parsing step: the exception raised (or "none"), the
\* value read and the position reached.
Got(v, p) == [err |-> "none", val |-> v, pos |-> p]
Bad(e, p) == [err |-> e, val |-> <<>>, pos |-> p]

(***************************************************************************)
(* core/encoding.py: BitPackedDictionaryWriter.                            *)
(***************************************************************************)
\* math.ceil(math.log2(n)) for n >= 1: the least b with 2^b >= n.
RECURSIVE CeilLog2From(_, _)
CeilLog2From(n, b) == IF Pow2(b) >= n THEN b ELSE CeilLog2From(n, b + 1)

\* A mutation: the null sentinel is not counted when sizing the index.
BitsNeededWithoutNull(dict_size) ==
    LET c == CeilLog2From(dict_size, 0) IN IF c > 1 THEN c ELSE 1

\* bits_needed = max(1, math.ceil(math.log2(dict_size + 1)))
BitsNeeded(dict_size) ==
    LET c == CeilLog2From(dict_size + 1, 0) IN IF c > 1 THEN c ELSE 1

\* The `while bits_in_byte >= 8` loop: whole bytes leave the accumulator.
RECURSIVE PackDrain(_)
PackDrain(st) ==
    IF st.bits_in_byte >= 8
    THEN LET out_byte == st.current_byte \div Pow2(st.bits_in_byte - 8)
         IN  PackDrain([current_byte |-> st.current_byte % Pow2(st.bits_in_byte - 8),
                        bits_in_byte |-> st.bits_in_byte - 8,
                        out |-> Append(st.out, out_byte % 256)])
    ELSE st

\* A mutation: the row's bits are added and no byte leaves the accumulator.
PackStepUndrained(st, index, bits_needed) ==
    [current_byte |-> st.current_byte * Pow2(bits_needed) + index,
     bits_in_byte |-> st.bits_in_byte + bits_needed,
     out |-> st.out]

\* One row of the packing loop.  (current_byte << bits_needed) | index is a
\* sum, the index being below 2^bits_needed.
PackStep(st, index, bits_needed) ==
    PackDrain([current_byte |-> st.current_byte * Pow2(bits_needed) + index,
               bits_in_byte |-> st.bits_in_byte + bits_needed,
               out |-> st.out])

RECURSIVE PackRows(_, _, _)
PackRows(st, indices, bits_needed) ==
    IF indices = <<>> THEN st
    ELSE PackRows(PackStep(st, Head(indices), bits_needed), Tail(indices), bits_needed)

PackStart == [current_byte |-> 0, bits_in_byte |-> 0, out |-> <<>>]

\* A mutation: the final partial byte is written as it stands, right-aligned.
PackFinalRightAligned(st) ==
    IF st.bits_in_byte > 0 THEN Append(st.out, st.current_byte % 256) ELSE st.out

\* The final partial byte, if any, left-aligned: the bytes written in all.
PackFinal(st) ==
    IF st.bits_in_byte > 0
    THEN Append(st.out, (st.current_byte * Pow2(8 - st.bits_in_byte)) % 256)
    ELSE st.out

\* The packed index bytes of a column, with the final partial byte left-aligned.
PackIndices(indices, bits_needed) ==
    PackFinal(PackRows(PackStart, indices, bits_needed))

\* reverse_dict[value]: the position of the value in value_dict, from 0.
IndexIn(value_dict, v) == (CHOOSE i \in 1..Len(value_dict) : value_dict[i] = v) - 1

\* A mutation: the values are numbered from 1.
RowIndicesFromOne(vals, value_dict, bits_needed) ==
    [i \in 1..Len(vals) |->
        IF IsNa(vals[i]) THEN Pow2(bits_needed) - 1 ELSE IndexIn(value_dict, vals[i]) + 1]

\* The index written for each row.
RowIndices(vals, value_dict, bits_needed) ==
    [i \in 1..Len(vals) |->
        IF IsNa(vals[i]) THEN Pow2(bits_needed) - 1 ELSE IndexIn(value_dict, vals[i])]

\* One dictionary entry: a length byte and the bytes of str(value).
DictEntry(v) ==
    LET val_bytes == StrBytes(v)
    IN  IF Len(val_bytes) > 255 THEN Fail("struct.error", <<>>)
        ELSE Ok(<<Len(val_bytes)>> \o val_bytes)

\* BitPackedDictionaryWriter.write_dictionary(buffer, series, value_dict)
write_dictionary(vals, value_dict) ==
    LET dict_size == Len(value_dict)
        bits_needed == BitsNeeded(dict_size)
    IN  IF dict_size > 65535 THEN Fail("struct.error", <<>>)
        ELSE IF \E i \in 1..Len(vals) :
                    ~IsNa(vals[i]) /\ \A j \in 1..dict_size : value_dict[j] # vals[i]
             THEN Fail("KeyError", <<>>)
        ELSE ThenAll(<<Ok(U16BE(dict_size) \o <<bits_needed>>),
                       ThenAll([i \in 1..dict_size |-> DictEntry(value_dict[i])]),
                       Ok(PackIndices(RowIndices(vals, value_dict, bits_needed),
                                      bits_needed))>>)

(***************************************************************************)
(* core/encoding.py: BitPackedDictionaryReader.                            *)
(***************************************************************************)
\* The dictionary entries: a length byte, then that many bytes (fewer when
\* the buffer ends).  The bytes are taken to be valid UTF-8.
RECURSIVE ReadDictEntries(_, _, _, _)
ReadDictEntries(data, p, remaining, acc) ==
    IF remaining = 0 THEN Got(acc, p)
    ELSE IF p + 1 > Len(data) THEN Bad("struct.error", Len(data))
    ELSE LET str == Avail(data, p + 1, data[p + 1])
         IN  ReadDictEntries(data, p + 1 + Len(str), remaining - 1, Append(acc, StrV(str)))

\* The `while bits_in_byte < bits_needed and byte_index < len(packed_data)` loop.
RECURSIVE UnpackFill(_, _, _)
UnpackFill(st, packed_data, bits_needed) ==
    IF st.bits_in_byte < bits_needed /\ st.byte_index < Len(packed_data)
    THEN UnpackFill([current_byte |-> st.current_byte * 256 + packed_data[st.byte_index + 1],
                     bits_in_byte |-> st.bits_in_byte + 8,
                     byte_index |-> st.byte_index + 1],
                    packed_data, bits_needed)
    ELSE st

\* One row of the unpacking loop: the state after it and the index read.
UnpackStep(st0, packed_data, bits_needed) ==
    LET st == UnpackFill(st0, packed_data, bits_needed)
        short == st.bits_in_byte < bits_needed
        cur == IF short THEN st.current_byte * Pow2(bits_needed - st.bits_in_byte)
               ELSE st.current_byte
        shift == IF short THEN 0 ELSE st.bits_in_byte - bits_needed
    IN  [index |-> (cur \div Pow2(shift)) % Pow2(bits_needed),
         st |-> [current_byte |-> cur % Pow2(shift),
                 bits_in_byte |-> shift,
                 byte_index |-> st.byte_index]]

RECURSIVE UnpackRows(_, _, _, _, _)
UnpackRows(st, packed_data, bits_needed, rows_left, acc) ==
    IF rows_left = 0 THEN acc
    ELSE LET r == UnpackStep(st, packed_data, bits_needed)
         IN  UnpackRows(r.st, packed_data, bits_needed, rows_left - 1, Append(acc, r.index))

\* The indices the reader unpacks from the packed bytes.
UnpackIndices(packed_data, bits_needed, row_count) ==
    UnpackRows([current_byte |-> 0, bits_in_byte |-> 0, byte_index |-> 0],
               packed_data, bits_needed, row_count, <<>>)

\* BitPackedDictionaryReader.read_dictionary(buffer, row_count), the buffer
\* being `data` read from position p.
read_dictionary(data, p, row_count) ==
    IF p + 3 > Len(data) THEN Bad("struct.error", Len(data))
    ELSE
    LET dict_size == data[p + 1] * 256 + data[p + 2]
        bits_needed == data[p + 3]
        entries == ReadDictEntries(data, p + 3, dict_size, <<>>)
        total_bytes == (row_count * bits_needed + 7) \div 8
        packed_data == Avail(data, entries.pos, total_bytes)
        null_value == Pow2(bits_needed) - 1
        indices == UnpackIndices(packed_data, bits_needed, row_count)
    IN  IF entries.err # "none" THEN entries
        ELSE IF \E i \in 1..row_count : indices[i] # null_value /\ indices[i] >= dict_size
             THEN Bad("KeyError", entries.pos + Len(packed_data))
        ELSE Got([dtype |-> "object",
                  values |-> [i \in 1..row_count |->
                                 IF indices[i] = null_value THEN Null
                                 ELSE entries.val[indices[i] + 1]]],
                 entries.pos + Len(packed_data))

(***************************************************************************)
(* constants.py and core/base.py: the common header and the directory.     *)
(***************************************************************************)
\* constants.MAGIC_NUMBER: the four bytes "HYBF".
MAGIC_NUMBER == <<72, 89, 66, 70>>

\* constants.VERSION
VERSION == 1

\* FormatType.value
FormatTypeValue(t) == CASE t = "MINIMAL" -> 1 [] t = "COMPRESSED" -> 2

\* FormatType(value); "invalid" stands for the ValueError of the enum.
FormatTypeOfValue(b) ==
    CASE b = 1 -> "MINIMAL" [] b = 2 -> "COMPRESSED" [] OTHER -> "invalid"

\* A mutation: the column count is written little-endian.
write_header_little_endian(format_type, num_columns) ==
    Ok(MAGIC_NUMBER \o <<VERSION, FormatTypeValue(format_type)>>
           \o <<num_columns % 256, num_columns \div 256>>)

\* BaseWriter.write_header: three writes, the last failing in struct.pack
\* when the column count does not fit sixteen bits.
write_header(format_type, num_columns) ==
    IF num_columns > 65535
    THEN Fail("struct.error", MAGIC_NUMBER \o <<VERSION, FormatTypeValue(format_type)>>)
    ELSE Ok(MAGIC_NUMBER \o <<VERSION, FormatTypeValue(format_type)>> \o U16BE(num_columns))

\* One entry of BaseWriter.write_column_definitions; c is a ColumnInfo [name, dtype].
ColumnDefinition(c) ==
    IF Len(c.name) > 255 THEN Fail("struct.error", <<TypeValue(c.dtype)>>)
    ELSE Ok(<<TypeValue(c.dtype), Len(c.name)>> \o c.name)

\* A mutation: the directory is written from the last column to the first.
write_column_definitions_reversed(cols) ==
    ThenAll([j \in 1..Len(cols) |-> ColumnDefinition(cols[Len(cols) + 1 - j])])

\* BaseWriter.write_column_definitions
write_column_definitions(cols) ==
    ThenAll([j \in 1..Len(cols) |-> ColumnDefinition(cols[j])])

(***************************************************************************)
(* formats/raw.py: the RAW encoder.                                        *)
(* Object cells are None, strings or Python ints; the strings of the pools *)
(* are empty or not numeric, so pd.to_numeric turns "" into NaN and raises *)
(* ValueError on any other string.                                         *)
(***************************************************************************)
\* analyze_numeric_column: [dtype, contains_null], dtype "none" for None.
analyze_numeric_column(vals) ==
    LET non_null == DropNa(vals)
        contains_null == Len(non_null) < Len(vals)
        ints == [j \in 1..Len(non_null) |-> non_null[j].n]
        min_val == IntMin(ints)
        max_val == IntMax(ints)
        unsigned ==
            IF IntGeq(min_val, FromInt(0))
            THEN IF IntLeq(max_val, FromInt(255)) THEN "uint8"
                 ELSE IF IntLeq(max_val, FromInt(65535)) THEN "uint16"
                 ELSE IF IntLeq(max_val, <<0, 0, 65535, 65535>>) THEN "uint32"
                 ELSE "none"
            ELSE "none"
        chosen ==
            IF Len(non_null) = 0 THEN "none"
            ELSE IF \A j \in 1..Len(non_null) : non_null[j].k = "int"
            THEN IF unsigned # "none" THEN unsigned
                 ELSE IF IntGeq(min_val, FromInt(-128)) /\ IntLeq(max_val, FromInt(127))
                      THEN "int8"
                 ELSE IF IntGeq(min_val, FromInt(-32768)) /\ IntLeq(max_val, FromInt(32767))
                      THEN "int16"
                 ELSE IF IntGeq(min_val, <<65535, 65535, 32768, 0>>)
                         /\ IntLeq(max_val, <<0, 0, 32767, 65535>>)
                      THEN "int32"
                 ELSE "int64"
            \* pd.to_numeric: ValueError on a non-empty string, caught
            ELSE IF \E j \in 1..Len(non_null) :
                        non_null[j].k = "str" /\ non_null[j].s # <<>>
            THEN "none"
            \* ints and empty strings: float64 with NaN, which is never allclose
            ELSE "float64"
    IN  [dtype |-> chosen,
         contains_null |-> IF Len(non_null) = 0 THEN TRUE ELSE contains_null]

\* The dtype_map of write_optimized_numeric.
DtypeCode(dtype) ==
    CASE dtype = "uint8" -> 1 [] dtype = "uint16" -> 2 [] dtype = "uint32" -> 3
      [] dtype = "int8" -> 4 [] dtype = "int16" -> 5 [] dtype = "int32" -> 6
      [] dtype = "int64" -> 7 [] dtype = "float32" -> 8 [] dtype = "float64" -> 9

\* The dtype_map of read_optimized_numeric; "none" stands for the KeyError.
DtypeOfCode(code) ==
    CASE code = 1 -> "uint8" [] code = 2 -> "uint16" [] code = 3 -> "uint32"
      [] code = 4 -> "int8" [] code = 5 -> "int16" [] code = 6 -> "int32"
      [] code = 7 -> "int64" [] code = 8 -> "float32" [] code = 9 -> "float64"
      [] OTHER -> "none"

\* write_optimized_numeric.  The bitmap is written only when a row is null.
\* series.dropna().astype(dtype) raises ValueError on an empty string, and
\* Series.tobytes exists or not with the pandas build (series_tobytes).
write_optimized_numeric(vals, optimal_dtype, series_tobytes) ==
    LET non_null == DropNa(vals)
        head == <<DtypeCode(optimal_dtype)>>
                    \o (IF AnyNa(vals) THEN NullBitmap(vals) ELSE <<>>)
    IN  IF \E j \in 1..Len(non_null) : non_null[j].k = "str"
        THEN Fail("ValueError", head)
        ELSE IF ~series_tobytes THEN Fail("AttributeError", head)
        ELSE Ok(head \o ToBytes(AsType(non_null, optimal_dtype), optimal_dtype))

\* One non-null value of the string layout of RawWriter.write.
RawString(v) ==
    LET val_bytes == StrBytes(v)
    IN  IF Len(val_bytes) > 65535 THEN Fail("struct.error", <<>>)
        ELSE Ok(U16BE(Len(val_bytes)) \o val_bytes)

\* RawWriter.write; c is a column [name, dtype, values].
RawWriter_write(c, series_tobytes) ==
    IF c.dtype # "object" THEN Ok(ToBytes(c.values, c.dtype))
    ELSE LET a == analyze_numeric_column(c.values)
             non_null == DropNa(c.values)
         IN  IF a.dtype # "none"
             THEN Then(Ok(<<1>>), write_optimized_numeric(c.values, a.dtype, series_tobytes))
             ELSE Then(Ok(<<0>> \o NullBitmap(c.values)),
                       ThenAll([j \in 1..Len(non_null) |-> RawString(non_null[j])]))

(***************************************************************************)
(* formats/compressed.py: CompressedWriter's encoders.                     *)
(***************************************************************************)
\* The tagged value of _write_rle and _write_single_value: nulls as tag 0,
\* integers as tag 1 and '>q', floats as tag 2 and '>d', everything else
\* (strings, numpy booleans) as tag 3 with a one-byte length and str(value).
TaggedValue(v) ==
    IF IsNa(v) THEN Ok(<<0>>)
    ELSE IF v.k = "int" THEN Ok(<<1>> \o BytesBE(v.n))
    ELSE IF v.k = "float" THEN Ok(<<2>> \o BytesBE(v.n))
    ELSE IF v.k = "float32" THEN Ok(<<2>> \o BytesBE(F32ToF64(v.n)))
    ELSE LET val_bytes == StrBytes(v)
         IN  IF Len(val_bytes) > 255 THEN Fail("struct.error", <<>>)
             ELSE Ok(<<3, Len(val_bytes)>> \o val_bytes)

\* CompressedWriter._write_rle
write_rle(vals) ==
    LET runs == calculate_runs(vals)
    IN  Then(Ok(U32BE(Len(runs))),
             ThenAll([j \in 1..Len(runs) |->
                         Then(TaggedValue(runs[j].value), Ok(U32BE(runs[j].count)))]))

\* CompressedWriter._write_single_value
write_single_value(value, length) == Then(TaggedValue(value), Ok(U32BE(length)))

\* CompressedWriter._write_null_column
write_null_column(length) == Ok(U32BE(length))

\* A mutation: the payload follows the tag without its length.
write_compressed_column_unframed(c, compression_type, metadata, series_tobytes) ==
    LET payload ==
            CASE compression_type = "RAW" -> RawWriter_write(c, series_tobytes)
              [] compression_type = "RLE" -> write_rle(c.values)
              [] compression_type = "DICTIONARY" -> write_dictionary(c.values, metadata)
              [] compression_type = "SINGLE_VALUE" ->
                    write_single_value(metadata, Len(c.values))
              [] compression_type = "NULL" -> write_null_column(Len(c.values))
        tag == <<CompressionValue(compression_type)>>
    IN  IF payload.err # "none" THEN Fail(payload.err, tag)
        ELSE Ok(tag \o payload.bytes)

\* CompressedWriter._write_compressed_column: the tag goes to the file at
\* once; the payload is built in a buffer and reaches the file, framed by
\* its length, only if building it raised nothing.
write_compressed_column(c, compression_type, metadata, series_tobytes) ==
    LET payload ==
            CASE compression_type = "RAW" -> RawWriter_write(c, series_tobytes)
              [] compression_type = "RLE" -> write_rle(c.values)
              [] compression_type = "DICTIONARY" -> write_dictionary(c.values, metadata)
              [] compression_type = "SINGLE_VALUE" ->
                    write_single_value(metadata, Len(c.values))
              [] compression_type = "NULL" -> write_null_column(Len(c.values))
        tag == <<CompressionValue(compression_type)>>
    IN  IF payload.err # "none" THEN Fail(payload.err, tag)
        ELSE Ok(tag \o U32BE(Len(payload.bytes)) \o payload.bytes)

(***************************************************************************)
(* formats/minimal.py: MinimalWriter.                                      *)
(***************************************************************************)
\* One entry of MinimalWriter._write_column_definitions; t is a ColumnTypeInfo.
MinimalColumnDefinition(t) ==
    IF Len(t.name) > 255 THEN Fail("struct.error", <<TypeValue(t.logical_type)>>)
    ELSE Ok(<<TypeValue(t.logical_type), Len(t.name)>> \o t.name
                \o <<IF t.nullable THEN 1 ELSE 0>>)

\* MinimalWriter._write_column_definitions
minimal_write_column_definitions(cols) ==
    ThenAll([j \in 1..Len(cols) |-> MinimalColumnDefinition(cols[j])])

\* A mutation: a null is written as the text of None.
MinimalStringNullAsText(v) ==
    LET val_bytes == IF IsNa(v) THEN <<78, 111, 110, 101>> ELSE StrBytes(v)
    IN  IF Len(val_bytes) > 255 THEN Fail("struct.error", <<>>)
        ELSE Ok(<<Len(val_bytes)>> \o val_bytes)

\* One value of MinimalWriter._write_string_column.
MinimalString(v) ==
    IF IsNa(v) THEN Ok(<<0>>)
    ELSE LET val_bytes == StrBytes(v)
         IN  IF Len(val_bytes) > 255 THEN Fail("struct.error", <<>>)
             ELSE Ok(<<Len(val_bytes)>> \o val_bytes)

\* MinimalWriter._write_string_column
write_string_column(vals) == ThenAll([j \in 1..Len(vals) |-> MinimalString(vals[j])])

\* MinimalWriter._write_numeric_column: the values are converted to the
\* storage type and written in its width.
write_numeric_column(vals, col_info) ==
    LET storage_data == to_storage_type(vals, col_info)
        kept == {j \in 1..Len(vals) : ~IsNa(vals[j])}
        non_null_data == SelectSeq([j \in 1..Len(vals) |->
                                       [at |-> j, v |-> storage_data.values[j]]],
                                   LAMBDA e : e.at \in kept)
    IN  IF col_info.nullable
        THEN Ok(NullBitmap(vals)
                    \o ToBytes([j \in 1..Len(non_null_data) |-> non_null_data[j].v],
                               storage_data.dtype))
        ELSE Ok(ToBytes(storage_data.values, storage_data.dtype))

\* MinimalWriter._write_column
write_column(c, col_info) ==
    IF col_info.logical_type = "STRING" THEN write_string_column(c.values)
    ELSE write_numeric_column(c.values, col_info)

(***************************************************************************)
(* core/base.py: BaseReader and BinaryReader.                              *)
(* Exceptions are named by their message where the code gives one          *)
(* ("Invalid file format", "Unsupported version", ...) and by their class  *)
(* otherwise ("struct.error", "ValueError", "EOFError", ...).              *)
(***************************************************************************)
\* BaseReader.read_header: magic, then version and format_type unpacked
\* together, the version check, num_columns, and only then FormatType(...).
read_header(bytes, p) ==
    LET magic == Avail(bytes, p, 4)
        p1 == p + Len(magic)
        two == Avail(bytes, p1, 2)
        p2 == p1 + Len(two)
        nc == Avail(bytes, p2, 2)
        p3 == p2 + Len(nc)
    IN  IF magic # MAGIC_NUMBER THEN Bad("Invalid file format", p1)
        ELSE IF Len(two) < 2 THEN Bad("struct.error", p2)
        ELSE IF two[1] # VERSION THEN Bad("Unsupported version", p2)
        ELSE IF Len(nc) < 2 THEN Bad("struct.error", p3)
        ELSE IF FormatTypeOfValue(two[2]) = "invalid" THEN Bad("ValueError", p3)
        ELSE Got([version |-> two[1],
                  format_type |-> FormatTypeOfValue(two[2]),
                  num_columns |-> nc[1] * 256 + nc[2]], p3)

\* BaseReader.read_column_definitions: a list of ColumnInfo [name, dtype].
RECURSIVE ReadColumnDefinitions(_, _, _, _)
ReadColumnDefinitions(bytes, p, remaining, acc) ==
    IF remaining = 0 THEN Got(acc, p)
    ELSE IF p + 1 > Len(bytes) THEN Bad("struct.error", p)
    ELSE IF p + 2 > Len(bytes) THEN Bad("struct.error", p + 1)
    ELSE LET name == Avail(bytes, p + 2, bytes[p + 2])
             p1 == p + 2 + Len(name)
             dtype == TypeOfValue(bytes[p + 1])
         IN  IF dtype = "invalid" THEN Bad("ValueError", p1)
             ELSE ReadColumnDefinitions(bytes, p1, remaining - 1,
                                        Append(acc, [name |-> name, dtype |-> dtype]))

read_column_definitions(bytes, p, num_columns) ==
    ReadColumnDefinitions(bytes, p, num_columns, <<>>)

\* struct.unpack('>I', file.read(4))[0]
ReadU32(bytes, p) ==
    LET b == Avail(bytes, p, 4)
    IN  IF Len(b) < 4 THEN Bad("struct.error", p + Len(b))
        ELSE Got(((b[1] * 256 + b[2]) * 256 + b[3]) * 256 + b[4], p + 4)

\* BinaryReader.read_array: an array [dtype, values].
read_array(bytes, p, dtype, count) ==
    LET bytes_to_read == ItemSize(dtype) * count
        got == Avail(bytes, p, bytes_to_read)
    IN  IF Len(got) # bytes_to_read THEN Bad("EOFError", p + Len(got))
        ELSE Got([dtype |-> dtype, values |-> FromBuffer(got, dtype)], p + bytes_to_read)

(***************************************************************************)
(* Null bitmaps on the reading side.                                       *)
(***************************************************************************)
\* null_bitmap[i // 8] & (1 << (i % 8)), rows counted from 0.
BitSet(bitmap, i) == (bitmap[(i \div 8) + 1] \div Pow2(i % 8)) % 2 = 1

\* bin(byte).count('1')
PopCount(byte) == SumSeq([b \in 1..8 |-> (byte \div Pow2(b - 1)) % 2])

\* np.nan stored in a float array.
NanOf(dtype) ==
    IF dtype = "float32" THEN Float32V(<<32704, 0>>) ELSE FloatV(<<32760, 0, 0, 0>>)

\* The loop that fills `result` from the bitmap and the non-null values:
\* a null row takes NaN in a float array, raises TypeError in an integer
\* array (None cannot be stored) and becomes False in a bool array.
RECURSIVE FillRows(_, _, _, _, _, _, _)
FillRows(bitmap, values, dtype, i, curr_idx, count, acc) ==
    IF i = count THEN Got([dtype |-> dtype, values |-> acc], 0)
    ELSE IF i \div 8 >= Len(bitmap) THEN Bad("IndexError", 0)
    ELSE IF BitSet(bitmap, i)
         THEN IF dtype \in {"float32", "float64"}
              THEN FillRows(bitmap, values, dtype, i + 1, curr_idx, count,
                            Append(acc, NanOf(dtype)))
              ELSE IF dtype = "bool"
              THEN FillRows(bitmap, values, dtype, i + 1, curr_idx, count,
                            Append(acc, BoolV(0)))
              ELSE Bad("TypeError", 0)
         ELSE IF curr_idx >= Len(values) THEN Bad("IndexError", 0)
              ELSE FillRows(bitmap, values, dtype, i + 1, curr_idx + 1, count,
                            Append(acc, values[curr_idx + 1]))

(***************************************************************************)
(* formats/raw.py: the RAW decoder.                                        *)
(***************************************************************************)
\* read_optimized_numeric: the bitmap is read whatever the column holds.
read_optimized_numeric(bytes, p, count) ==
    IF p + 1 > Len(bytes) THEN Bad("struct.error", p)
    ELSE
    LET dtype == DtypeOfCode(bytes[p + 1])
        bitmap_size == (count + 7) \div 8
        null_bitmap == Avail(bytes, p + 1, bitmap_size)
        p1 == p + 1 + Len(null_bitmap)
        upto == IF Len(null_bitmap) < bitmap_size - 1 THEN Len(null_bitmap)
                ELSE bitmap_size - 1
        non_null_count ==
            count - SumSeq([j \in 1..upto |-> PopCount(null_bitmap[j])])
                  - PopCount(null_bitmap[Len(null_bitmap)])
        \* buffer.read(n) with n < 0 returns everything that is left
        raw == IF non_null_count < 0 THEN Avail(bytes, p1, Len(bytes))
               ELSE Avail(bytes, p1, non_null_count * ItemSize(dtype))
        p2 == p1 + Len(raw)
        filled == FillRows(null_bitmap, FromBuffer(raw, dtype), dtype, 0, 0, count, <<>>)
    IN  IF dtype = "none" THEN Bad("KeyError", p + 1)
        ELSE IF Len(null_bitmap) = 0 THEN Bad("IndexError", p1)
        ELSE IF Len(raw) % ItemSize(dtype) # 0 THEN Bad("ValueError", p2)
        ELSE IF filled.err # "none" THEN Bad(filled.err, p2)
        ELSE Got(filled.val, p2)

\* The string layout of RawReader.read, row by row.
RECURSIVE ReadRawStrings(_, _, _, _, _, _)
ReadRawStrings(bytes, p, null_bitmap, i, count, acc) ==
    IF i = count THEN Got([dtype |-> "object", values |-> acc], p)
    ELSE IF i \div 8 >= Len(null_bitmap) THEN Bad("IndexError", p)
    ELSE IF BitSet(null_bitmap, i)
         THEN ReadRawStrings(bytes, p, null_bitmap, i + 1, count, Append(acc, Null))
    ELSE LET lb == Avail(bytes, p, 2)
             val == Avail(bytes, p + 2, lb[1] * 256 + lb[2])
         IN  IF Len(lb) < 2 THEN Bad("struct.error", p + Len(lb))
             ELSE ReadRawStrings(bytes, p + 2 + Len(val), null_bitmap, i + 1, count,
                                 Append(acc, StrV(val)))

\* RawReader.read(buffer, dtype, row_count), dtype being the DataType of
\* the directory.
RawReader_read(bytes, p, dtype, count) ==
    IF dtype # "STRING" THEN read_array(bytes, p, to_numpy(dtype), count)
    ELSE IF p + 1 > Len(bytes) THEN Bad("struct.error", p)
    ELSE IF bytes[p + 1] = 1 THEN read_optimized_numeric(bytes, p + 1, count)
    ELSE LET null_bitmap == Avail(bytes, p + 1, (count + 7) \div 8)
         IN  ReadRawStrings(bytes, p + 1 + Len(null_bitmap), null_bitmap, 0, count, <<>>)

(***************************************************************************)
(* formats/compressed.py: CompressedReader's decoders.                     *)
(***************************************************************************)
\* One decoded value stored in an array of the given dtype (np.array(values,
\* dtype) and np.full(n, value, dtype)): [err, v].  A string stored as bool
\* is truthy or a ValueError with the numpy build (str_to_bool).
NpCell(v, dtype, str_to_bool) ==
    CASE dtype = "object" -> [err |-> "none", v |-> v]
      [] dtype = "int64" /\ v.k = "int" -> [err |-> "none", v |-> v]
      [] dtype = "int32" /\ v.k = "int" ->
            IF IntGeq(v.n, <<65535, 65535, 32768, 0>>) /\ IntLeq(v.n, <<0, 0, 32767, 65535>>)
            THEN [err |-> "none", v |-> v]
            ELSE [err |-> "OverflowError", v |-> v]
      [] dtype \in {"int32", "int64"} /\ v.k = "null" -> [err |-> "TypeError", v |-> v]
      [] dtype \in {"int32", "int64", "float32", "float64"} /\ v.k = "str" ->
            [err |-> "ValueError", v |-> v]
      [] dtype = "float64" /\ v.k = "float" -> [err |-> "none", v |-> v]
      [] dtype = "float32" /\ v.k = "float" ->
            [err |-> "none", v |-> Float32V(F64ToF32(v.n))]
      [] dtype \in {"float32", "float64"} /\ v.k = "null" ->
            [err |-> "none", v |-> NanOf(dtype)]
      [] dtype = "bool" /\ v.k = "str" ->
            IF str_to_bool = "truthy"
            THEN [err |-> "none", v |-> BoolV(IF v.s = <<>> THEN 0 ELSE 1)]
            ELSE [err |-> "ValueError", v |-> v]
      [] dtype = "bool" /\ v.k = "int" ->
            [err |-> "none", v |-> BoolV(IF v.n = <<0, 0, 0, 0>> THEN 0 ELSE 1)]
      [] dtype = "bool" /\ v.k = "null" -> [err |-> "none", v |-> BoolV(0)]

\* np.array(values, dtype=dtype): the first failing cell raises.
NpArray(values, dtype, str_to_bool, p) ==
    LET cells == [j \in 1..Len(values) |-> NpCell(values[j], dtype, str_to_bool)]
        bad == {j \in 1..Len(values) : cells[j].err # "none"}
    IN  IF bad # {} THEN Bad(cells[CHOOSE j \in bad : \A m \in bad : j <= m].err, p)
        ELSE Got([dtype |-> dtype, values |-> [j \in 1..Len(values) |-> cells[j].v]], p)

\* The tagged value of _read_rle and _read_single_value.
ReadTagged(bytes, p) ==
    IF p + 1 > Len(bytes) THEN Bad("struct.error", p)
    ELSE
    LET value_type == bytes[p + 1]
        eight == Avail(bytes, p + 1, 8)
        str == Avail(bytes, p + 2, bytes[p + 2])
    IN  CASE value_type = 0 -> Got(Null, p + 1)
          [] value_type = 1 ->
                IF Len(eight) < 8 THEN Bad("struct.error", p + 1 + Len(eight))
                ELSE Got(IntV(LimbsOfBE(eight)), p + 9)
          [] value_type = 2 ->
                IF Len(eight) < 8 THEN Bad("struct.error", p + 1 + Len(eight))
                ELSE Got(FloatV(LimbsOfBE(eight)), p + 9)
          [] value_type = 3 ->
                IF p + 2 > Len(bytes) THEN Bad("struct.error", p + 1)
                ELSE Got(StrV(str), p + 2 + Len(str))
          [] OTHER -> Bad("ValueError", p + 1)

\* The runs of _read_rle: each value is repeated `count` times.
RECURSIVE ReadRuns(_, _, _, _)
ReadRuns(bytes, p, remaining, acc) ==
    IF remaining = 0 THEN Got(acc, p)
    ELSE LET value == ReadTagged(bytes, p)
             count == ReadU32(bytes, value.pos)
         IN  IF value.err # "none" THEN value
             ELSE IF count.err # "none" THEN count
             ELSE ReadRuns(bytes, count.pos, remaining - 1,
                           acc \o [j \in 1..count.val |-> value.val])

\* CompressedReader._read_rle: the number of values is not compared with
\* row_count.
read_rle(bytes, dtype, str_to_bool) ==
    LET num_runs == ReadU32(bytes, 0)
        runs == ReadRuns(bytes, num_runs.pos, num_runs.val, <<>>)
    IN  IF num_runs.err # "none" THEN num_runs
        ELSE IF runs.err # "none" THEN runs
        ELSE NpArray(runs.val, to_numpy(dtype), str_to_bool, runs.pos)

\* CompressedReader._read_single_value
read_single_value(bytes, dtype, count, str_to_bool) ==
    LET value == ReadTagged(bytes, 0)
        stored_length == ReadU32(bytes, value.pos)
    IN  IF value.err # "none" THEN value
        ELSE IF stored_length.err # "none" THEN stored_length
        ELSE IF stored_length.val # count THEN Bad("Length mismatch", stored_length.pos)
        ELSE NpArray([j \in 1..count |-> value.val], to_numpy(dtype), str_to_bool,
                     stored_length.pos)

\* CompressedReader._read_null_column
read_null_column(bytes, count) ==
    LET stored_length == ReadU32(bytes, 0)
    IN  IF stored_length.err # "none" THEN stored_length
        ELSE IF stored_length.val # count THEN Bad("Length mismatch", stored_length.pos)
        ELSE Got([dtype |-> "object", values |-> [j \in 1..count |-> Null]],
                 stored_length.pos)

\* CompressionType(value); "invalid" stands for the ValueError of the enum.
CompressionOfValue(b) ==
    CASE b = 1 -> "RAW" [] b = 2 -> "RLE" [] b = 3 -> "DICTIONARY"
      [] b = 4 -> "SINGLE_VALUE" [] b = 5 -> "NULL" [] OTHER -> "invalid"

\* CompressedReader._read_compressed_column: tag, payload length, then the
\* payload, decoded from a buffer of its own.  The position returned is
\* that of the file.
read_compressed_column(bytes, p, dtype, count, str_to_bool) ==
    IF p + 1 > Len(bytes) THEN Bad("struct.error", p)
    ELSE
    LET compression_type == CompressionOfValue(bytes[p + 1])
        compressed_size == ReadU32(bytes, p + 1)
        compressed_data == Avail(bytes, compressed_size.pos, compressed_size.val)
        p1 == compressed_size.pos + Len(compressed_data)
        arr == CASE compression_type = "RAW" ->
                        RawReader_read(compressed_data, 0, dtype, count)
                 [] compression_type = "RLE" ->
                        read_rle(compressed_data, dtype, str_to_bool)
                 [] compression_type = "DICTIONARY" ->
                        read_dictionary(compressed_data, 0, count)
                 [] compression_type = "SINGLE_VALUE" ->
                        read_single_value(compressed_data, dtype, count, str_to_bool)
                 [] compression_type = "NULL" ->
                        read_null_column(compressed_data, count)
    IN  IF compression_type = "invalid" THEN Bad("ValueError", p + 1)
        ELSE IF compressed_size.err # "none" THEN compressed_size
        ELSE IF arr.err # "none" THEN Bad(arr.err, p1)
        ELSE Got(arr.val, p1)

(***************************************************************************)
(* formats/minimal.py: MinimalReader.                                      *)
(***************************************************************************)
\* MinimalReader._read_column_definitions: a list of ColumnTypeInfo.
RECURSIVE MinimalReadColumnDefinitions(_, _, _, _)
MinimalReadColumnDefinitions(bytes, p, remaining, acc) ==
    IF remaining = 0 THEN Got(acc, p)
    ELSE IF p + 1 > Len(bytes) THEN Bad("struct.error", p)
    ELSE IF TypeOfValue(bytes[p + 1]) = "invalid" THEN Bad("ValueError", p + 1)
    ELSE IF p + 2 > Len(bytes) THEN Bad("struct.error", p + 1)
    ELSE LET name == Avail(bytes, p + 2, bytes[p + 2])
             p1 == p + 2 + Len(name)
         IN  IF p1 + 1 > Len(bytes) THEN Bad("struct.error", p1)
             ELSE MinimalReadColumnDefinitions(bytes, p1 + 1, remaining - 1,
                      Append(acc, [name |-> name,
                                   logical_type |-> TypeOfValue(bytes[p + 1]),
                                   storage_type |-> "STRING",
                                   nullable |-> bytes[p1 + 1] # 0]))

minimal_read_column_definitions(bytes, p, num_columns) ==
    MinimalReadColumnDefinitions(bytes, p, num_columns, <<>>)

\* MinimalReader._read_string_column: a length byte of 0 reads as None.
RECURSIVE ReadStrings(_, _, _, _)
ReadStrings(bytes, p, remaining, acc) ==
    IF remaining = 0 THEN Got([dtype |-> "object", values |-> acc], p)
    ELSE IF p + 1 > Len(bytes) THEN Bad("struct.error", p)
    ELSE IF bytes[p + 1] = 0 THEN ReadStrings(bytes, p + 1, remaining - 1, Append(acc, Null))
    ELSE LET str == Avail(bytes, p + 1, bytes[p + 1])
         IN  ReadStrings(bytes, p + 1 + Len(str), remaining - 1, Append(acc, StrV(str)))

read_string_column(bytes, p, count) == ReadStrings(bytes, p, count, <<>>)

\* MinimalReader._read_numeric_column: the values are read in the width of
\* the logical type.
read_numeric_column(bytes, p, col_info, count) ==
    LET dtype == to_numpy(col_info.logical_type)
        bitmap_size == (count + 7) \div 8
        null_bitmap == Avail(bytes, p, bitmap_size)
        p1 == p + Len(null_bitmap)
        nulls == Cardinality({i \in 0..(count - 1) : BitSet(null_bitmap, i)})
        values == read_array(bytes, p1, dtype, count - nulls)
        filled == FillRows(null_bitmap, values.val.values, dtype, 0, 0, count, <<>>)
    IN  IF ~col_info.nullable THEN read_array(bytes, p, dtype, count)
        ELSE IF Len(null_bitmap) < bitmap_size THEN Bad("IndexError", p1)
        ELSE IF values.err # "none" THEN values
        ELSE IF filled.err # "none" THEN Bad(filled.err, values.pos)
        ELSE Got(filled.val, values.pos)

\* MinimalReader._read_column
read_column(bytes, p, col_info, count) ==
    IF col_info.logical_type = "STRING" THEN read_string_column(bytes, p, count)
    ELSE read_numeric_column(bytes, p, col_info, count)

(***************************************************************************)
(* pd.DataFrame(data): `data` is kept as a sequence of [name, dtype,       *)
(* values] in insertion order; a name read twice keeps its first place     *)
(* and its last array.                                                     *)
(***************************************************************************)
PutArray(arrs, name, arr) ==
    LET entry == [name |-> name, dtype |-> arr.dtype, values |-> arr.values]
    IN  IF \E j \in 1..Len(arrs) : arrs[j].name = name
        THEN [j \in 1..Len(arrs) |-> IF arrs[j].name = name THEN entry ELSE arrs[j]]
        ELSE Append(arrs, entry)

\* The constructor raises ValueError when the arrays differ in length.
DataFrame(arrs) ==
    IF \E j, m \in 1..Len(arrs) : Len(arrs[j].values) # Len(arrs[m].values)
    THEN [err |-> "ValueError", table |-> <<>>]
    ELSE [err |-> "none", table |-> arrs]

(***************************************************************************)
(* factory.py: FormatFactory.                                              *)
(***************************************************************************)
\* The size up to which the minimal writer is chosen.
SizeThreshold == 4096

\* estimated_size of create_writer: mem is what df.memory_usage(deep=True)
\* reports, the Index included, and names are the column names.
estimated_size(mem, names) ==
    mem.index + SumSeq(mem.cols)
        + SumSeq([j \in 1..Len(names) |-> Len(names[j])])
        + 8 + 2 * Len(names)

\* FormatFactory.create_writer
create_writer(mem, names) ==
    IF estimated_size(mem, names) <= SizeThreshold THEN "MinimalWriter"
    ELSE "CompressedWriter"

\* A mutation: the position is left after the byte that was read.
create_reader_no_restore(bytes, p) ==
    IF Len(bytes) < 6 THEN [err |-> "struct.error", reader |-> "none", pos |-> 5]
    ELSE IF FormatTypeOfValue(bytes[6]) = "invalid"
         THEN [err |-> "ValueError", reader |-> "none", pos |-> 6]
    ELSE [err |-> "none",
          reader |-> IF FormatTypeOfValue(bytes[6]) = "MINIMAL" THEN "MinimalReader"
                     ELSE "CompressedReader",
          pos |-> 6]

\* FormatFactory.create_reader: [err, reader, pos].  The position is put
\* back only when the byte at offset 5 was read and is a FormatType.
create_reader(bytes, p) ==
    IF Len(bytes) < 6 THEN [err |-> "struct.error", reader |-> "none", pos |-> 5]
    ELSE IF FormatTypeOfValue(bytes[6]) = "invalid"
         THEN [err |-> "ValueError", reader |-> "none", pos |-> 6]
    ELSE [err |-> "none",
          reader |-> IF FormatTypeOfValue(bytes[6]) = "MINIMAL" THEN "MinimalReader"
                     ELSE "CompressedReader",
          pos |-> p]

(***************************************************************************)
(* The analyzer and converter as a state machine over one column           *)
(* (specification SpecTypes).                                              *)
(***************************************************************************)
\* Integers around every threshold the analyzer tests.
IntPool ==
    {FromInt(n) : n \in {-32769, -32768, -129, -128, -1, 0, 1, 127, 128, 255, 256,
                         32767, 32768, 65535, 65536}}
    \cup {<<65535, 65535, 32768, 0>>,       \* -2^31
          <<65535, 65535, 32767, 65535>>,   \* -2^31 - 1
          <<0, 0, 32767, 65535>>,           \* 2^31 - 1
          <<0, 0, 32768, 0>>,               \* 2^31
          <<0, 0, 65535, 65535>>,           \* 2^32 - 1
          <<0, 1, 0, 0>>,                   \* 2^32
          <<32768, 0, 0, 0>>,               \* -2^63
          <<32767, 65535, 65535, 65535>>}   \* 2^63 - 1

InInt32(x) == IntGeq(x, <<65535, 65535, 32768, 0>>) /\ IntLeq(x, <<0, 0, 32767, 65535>>)

\* The integer columns pandas can hold: int64 always, int32 when every value fits.
IntColumns ==
    {[name |-> <<99>>, dtype |-> d, values |-> [i \in 1..Len(xs) |-> IntV(xs[i])]] :
        xs \in SeqsUpTo(IntPool, 0, MaxInts), d \in {"int32", "int64"}}

TypesColumns ==
    {c \in IntColumns :
        c.dtype = "int32" => \A i \in 1..Len(c.values) : InInt32(c.values[i].n)}

Idle == [err |-> "none", table |-> <<>>]

Unopened == [by |-> "none", at |-> 0]

InitTypes ==
    /\ series \in TypesColumns
    /\ pc = "t_start"
    /\ df = <<>> /\ memory = [index |-> 0, cols |-> <<>>]
    /\ file = <<>> /\ pos = 0
    /\ writer = "none" /\ reader = "none" /\ selector = DefaultSelector
    /\ header = <<>> /\ rows = 0 /\ arrays = <<>> /\ idx = 0
    /\ columns = <<>> /\ result = Idle /\ stored = <<>> /\ opened = Unopened /\ calls = 0

\* TypeAnalyzer.analyze_series(series)
TAnalyze ==
    /\ pc = "t_start"
    /\ columns' = <<analyze_series(series)>>
    /\ pc' = "t_analyzed"
    /\ UNCHANGED <<calls, opened, df, memory, file, pos, writer, selector, reader, header, rows, arrays,
                   idx, result, series, stored>>

\* TypeConverter.to_storage_type(series.to_numpy(), type_info)
TToStorage ==
    /\ pc = "t_analyzed"
    /\ stored' = to_storage_type(series.values, columns[1])
    /\ pc' = "t_stored"
    /\ UNCHANGED <<calls, opened, df, memory, file, pos, writer, selector, reader, header, rows, arrays,
                   idx, result, series, columns>>

\* TypeConverter.from_storage_type(storage_data, type_info)
TFromStorage ==
    /\ pc = "t_stored"
    /\ stored' = from_storage_type(stored, columns[1])
    /\ pc' = "t_restored"
    /\ UNCHANGED <<calls, opened, df, memory, file, pos, writer, selector, reader, header, rows, arrays,
                   idx, result, series, columns>>

NextTypes == TAnalyze \/ TToStorage \/ TFromStorage

SpecTypes == InitTypes /\ [][NextTypes]_vars

(***************************************************************************)
(* The tables of the model.  A table is a sequence of columns [name,       *)
(* dtype, values] of equal length with distinct names.  The first column   *)
(* ranges over every column of the cell pools; further columns come from a *)
(* small pool, to keep the number of tables down.                          *)
(***************************************************************************)
MaxRows == 4
MaxCols == 2

\* "a", "bb", "ccc", ...
ColName(j) == [m \in 1..j |-> 96 + j]

CellPool(dtype) ==
    CASE dtype = "int64" ->
            {IntV(FromInt(1)), IntV(FromInt(-1)), IntV(<<0, 256, 0, 0>>)}
      [] dtype = "int32" -> {IntV(FromInt(1)), IntV(FromInt(-1))}
      [] dtype = "float64" ->                        \* 1.5, NaN, 1e300
            {FloatV(<<16376, 0, 0, 0>>), FloatV(<<32760, 0, 0, 0>>),
             FloatV(<<32311, 58428, 34816, 30108>>)}
      [] dtype = "float32" ->                        \* 1.5, NaN
            {Float32V(<<16320, 0>>), Float32V(<<32704, 0>>)}
      [] dtype = "bool" -> {BoolV(0), BoolV(1)}
      [] dtype = "object" ->                         \* None, "x", "", 1
            {Null, StrV(<<120>>), StrV(<<>>), IntV(FromInt(1))}

Dtypes == {"int64", "int32", "float64", "float32", "bool", "object"}

HeadColumns(n) ==
    UNION {{[name |-> ColName(1), dtype |-> d, values |-> vs] :
                vs \in [1..n -> CellPool(d)]} : d \in Dtypes}

TailColumns(j, n) ==
    {[name |-> ColName(j), dtype |-> "int64",
      values |-> [m \in 1..n |-> IntV(<<0, 256, 0, 0>>)]],
     [name |-> ColName(j), dtype |-> "object",
      values |-> [m \in 1..n |-> StrV(<<120>>)]]}

RECURSIVE TablesOf(_, _)
TablesOf(n, width) ==
    IF width = 1 THEN {<<c>> : c \in HeadColumns(n)}
    ELSE {Append(t, c) : t \in TablesOf(n, width - 1), c \in TailColumns(width, n)}

Tables ==
    {<<>>} \cup UNION {TablesOf(n, width) : n \in 0..MaxRows, width \in 1..MaxCols}

\* Tables with a column name of one byte more than a length byte can hold:
\* as the only column, and as the second of two.
MaxNameBytes == 255

LongName == [m \in 1..(MaxNameBytes + 1) |-> 97]

LongNameTables ==
    {<<[name |-> LongName, dtype |-> d, values |-> <<v>>]>> :
        d \in {"int64"}, v \in CellPool("int64")}
    \cup {<<[name |-> ColName(1), dtype |-> "object", values |-> <<v>>],
            [name |-> LongName, dtype |-> "object", values |-> <<v>>]>> :
            v \in CellPool("object")}

\* len(df)
RowsOf(t) == IF t = <<>> THEN 0 ELSE Len(t[1].values)

\* The selectors a writer is run with: the default one and one that sends
\* every eligible object column to the dictionary.
Selectors ==
    {DefaultSelector,
     [uniqueness_threshold |-> [num |-> 1, den |-> 1],
      redundancy_threshold |-> [num |-> 1, den |-> 2]]}

NoColumn == [name |-> <<>>, dtype |-> "object", values |-> <<>>]

(***************************************************************************)
(* Writing a table and reading it back (specification SpecCodec).          *)
(***************************************************************************)
InitCodec ==
    /\ df \in Tables \cup LongNameTables
    /\ writer \in {"MinimalWriter", "CompressedWriter"}
    /\ selector \in IF writer = "CompressedWriter" THEN Selectors ELSE {DefaultSelector}
    /\ pc = "w_start"
    /\ memory = [index |-> 0, cols |-> <<>>]
    /\ file = <<>> /\ pos = 0
    /\ reader = "none" /\ header = <<>> /\ rows = 0 /\ arrays = <<>> /\ idx = 0
    /\ columns = <<>> /\ result = Idle /\ series = NoColumn /\ stored = <<>>
    /\ opened = Unopened /\ calls = 0

\* The effect of one write step on the sink and on the course of the call.
Emit(r, next) ==
    /\ file' = file \o r.bytes
    /\ pos' = Len(file')
    /\ result' = [err |-> r.err, table |-> <<>>]
    /\ pc' = IF r.err = "none" THEN next ELSE "w_failed"

\* CompressedWriter.write: the header.
CompressedWriter_header ==
    /\ pc = "w_start" /\ writer = "CompressedWriter"
    /\ Emit(write_header("COMPRESSED", Len(df)), "w_header")
    /\ UNCHANGED <<calls, opened, df, memory, writer, selector, columns, reader, header, rows, arrays,
                   idx, series, stored>>

\* CompressedWriter.write: the column definitions.
CompressedWriter_definitions ==
    /\ pc = "w_header" /\ writer = "CompressedWriter"
    /\ columns' = [j \in 1..Len(df) |->
                      [name |-> df[j].name, dtype |-> from_numpy(df[j].dtype)]]
    /\ Emit(write_column_definitions(columns'), "w_directory")
    /\ UNCHANGED <<calls, opened, df, memory, writer, selector, reader, header, rows, arrays, idx,
                   series, stored>>

\* CompressedWriter.write: the row count.
CompressedWriter_row_count ==
    /\ pc = "w_directory" /\ writer = "CompressedWriter"
    /\ Emit(Ok(U32BE(RowsOf(df))), IF Len(df) = 0 THEN "w_done" ELSE "w_columns")
    /\ idx' = 1
    /\ UNCHANGED <<calls, opened, df, memory, writer, selector, columns, reader, header, rows, arrays,
                   series, stored>>

\* CompressedWriter.write: one turn of the column loop, select_strategy and
\* _write_compressed_column.
CompressedWriter_column ==
    /\ pc = "w_columns" /\ writer = "CompressedWriter"
    /\ \E order \in ValueCountOrders(df[idx].values), series_tobytes \in BOOLEAN :
          /\ series' = df[idx]
          /\ stored' = select_strategy(selector, df[idx], order)
          /\ Emit(write_compressed_column(df[idx], stored'.type, stored'.metadata,
                                          series_tobytes),
                  IF idx = Len(df) THEN "w_done" ELSE "w_columns")
    /\ idx' = idx + 1
    /\ UNCHANGED <<calls, opened, df, memory, writer, selector, columns, reader, header, rows, arrays>>

\* A mutation: the analysed columns are added to a list the object keeps.
MinimalWriter_analyze_keeping ==
    /\ pc = "w_start" /\ writer = "MinimalWriter"
    /\ columns' = columns \o [j \in 1..Len(df) |-> analyze_series(df[j])]
    /\ pc' = "w_analyzed"
    /\ UNCHANGED <<calls, opened, df, memory, file, pos, writer, selector, reader, header, rows,
                   arrays, idx, result, series, stored>>

\* MinimalWriter.write: the analysis of the columns.
MinimalWriter_analyze ==
    /\ pc = "w_start" /\ writer = "MinimalWriter"
    /\ columns' = [j \in 1..Len(df) |-> analyze_series(df[j])]
    /\ pc' = "w_analyzed"
    /\ UNCHANGED <<calls, opened, df, memory, file, pos, writer, selector, reader, header, rows, arrays,
                   idx, result, series, stored>>

\* MinimalWriter._write_header
MinimalWriter_header ==
    /\ pc = "w_analyzed" /\ writer = "MinimalWriter"
    /\ Emit(write_header("MINIMAL", Len(columns)), "w_header")
    /\ UNCHANGED <<calls, opened, df, memory, writer, selector, columns, reader, header, rows, arrays,
                   idx, series, stored>>

\* MinimalWriter._write_column_definitions
MinimalWriter_definitions ==
    /\ pc = "w_header" /\ writer = "MinimalWriter"
    /\ Emit(minimal_write_column_definitions(columns), "w_directory")
    /\ UNCHANGED <<calls, opened, df, memory, writer, selector, columns, reader, header, rows, arrays,
                   idx, series, stored>>

\* MinimalWriter.write: the row count.
MinimalWriter_row_count ==
    /\ pc = "w_directory" /\ writer = "MinimalWriter"
    /\ Emit(Ok(U32BE(RowsOf(df))), IF Len(df) = 0 THEN "w_done" ELSE "w_columns")
    /\ idx' = 1
    /\ UNCHANGED <<calls, opened, df, memory, writer, selector, columns, reader, header, rows, arrays,
                   series, stored>>

\* MinimalWriter.write: one turn of the column loop, _write_column.
MinimalWriter_column ==
    /\ pc = "w_columns" /\ writer = "MinimalWriter"
    /\ series' = df[idx]
    /\ Emit(write_column(df[idx], columns[idx]),
            IF idx = Len(df) THEN "w_done" ELSE "w_columns")
    /\ idx' = idx + 1
    /\ UNCHANGED <<calls, opened, df, memory, writer, selector, columns, reader, header, rows, arrays,
                   stored>>

\* The caller rewinds the sink before reading it (buffer.seek(0)).
Rewind ==
    /\ pc = "w_done"
    /\ pos' = 0
    /\ pc' = "s_start"
    /\ UNCHANGED <<calls, opened, df, memory, file, writer, selector, columns, reader, header, rows,
                   arrays, idx, result, series, stored>>

(***************************************************************************)
(* Reading a stream.                                                       *)
(***************************************************************************)
\* reader = MinimalReader()
NewMinimalReader ==
    /\ pc = "s_start"
    /\ opened' = [by |-> "direct", at |-> pos]
    /\ reader' = "MinimalReader"
    /\ pc' = "r_start"
    /\ UNCHANGED <<calls, df, memory, file, pos, writer, selector, columns, header, rows,
                   arrays, idx, result, series, stored>>

\* reader = CompressedReader()
NewCompressedReader ==
    /\ pc = "s_start"
    /\ opened' = [by |-> "direct", at |-> pos]
    /\ reader' = "CompressedReader"
    /\ pc' = "r_start"
    /\ UNCHANGED <<calls, df, memory, file, pos, writer, selector, columns, header, rows,
                   arrays, idx, result, series, stored>>

\* reader = FormatFactory.create_reader(file)
CreateReader ==
    /\ pc = "s_start"
    /\ opened' = [by |-> "factory", at |-> pos]
    /\ LET r == create_reader(file, pos)
       IN  /\ reader' = r.reader
           /\ pos' = r.pos
           /\ result' = [err |-> r.err, table |-> <<>>]
           /\ pc' = IF r.err = "none" THEN "r_start" ELSE "f_failed"
    /\ UNCHANGED <<calls, df, memory, file, writer, selector, columns, header, rows, arrays,
                   idx, series, stored>>

\* The effect of one read step on the position and the course of the call.
Consume(r, next) ==
    /\ pos' = r.pos
    /\ result' = [err |-> r.err, table |-> <<>>]
    /\ pc' = IF r.err = "none" THEN next ELSE "r_failed"

\* MinimalReader.read / CompressedReader.read: read_header and the check
\* of the format type.
Reader_header ==
    /\ pc = "r_start"
    /\ LET h == read_header(file, pos)
           expected == IF reader = "MinimalReader" THEN "MINIMAL" ELSE "COMPRESSED"
           wrong == IF reader = "MinimalReader" THEN "Not a minimal format file"
                    ELSE "Not a compressed format file"
       IN  /\ header' = IF h.err = "none" THEN h.val ELSE <<>>
           /\ Consume(IF h.err = "none" /\ h.val.format_type # expected
                      THEN Bad(wrong, h.pos) ELSE h,
                      "r_header")
    /\ UNCHANGED <<calls, opened, df, memory, file, writer, selector, columns, reader, rows, arrays,
                   idx, series, stored>>

\* CompressedReader.read: read_column_definitions
CompressedReader_definitions ==
    /\ pc = "r_header" /\ reader = "CompressedReader"
    /\ LET d == read_column_definitions(file, pos, header.num_columns)
       IN  /\ columns' = IF d.err = "none" THEN d.val ELSE <<>>
           /\ Consume(d, "r_directory")
    /\ UNCHANGED <<calls, opened, df, memory, file, writer, selector, reader, header, rows, arrays,
                   idx, series, stored>>

\* MinimalReader._read_column_definitions
MinimalReader_definitions ==
    /\ pc = "r_header" /\ reader = "MinimalReader"
    /\ LET d == minimal_read_column_definitions(file, pos, header.num_columns)
       IN  /\ columns' = IF d.err = "none" THEN d.val ELSE <<>>
           /\ Consume(d, "r_directory")
    /\ UNCHANGED <<calls, opened, df, memory, file, writer, selector, reader, header, rows, arrays,
                   idx, series, stored>>

\* Both readers: the row count.
Reader_row_count ==
    /\ pc = "r_directory"
    /\ LET n == ReadU32(file, pos)
       IN  /\ rows' = IF n.err = "none" THEN n.val ELSE 0
           /\ Consume(n, IF Len(columns) = 0 THEN "r_columns_done" ELSE "r_columns")
    /\ idx' = 1
    /\ arrays' = <<>>
    /\ UNCHANGED <<calls, opened, df, memory, file, writer, selector, columns, reader, header, series,
                   stored>>

\* CompressedReader.read: one turn of the column loop.
CompressedReader_column ==
    /\ pc = "r_columns" /\ reader = "CompressedReader"
    /\ \E str_to_bool \in {"truthy", "error"} :
          LET a == read_compressed_column(file, pos, columns[idx].dtype, rows, str_to_bool)
          IN  /\ arrays' = IF a.err = "none" THEN PutArray(arrays, columns[idx].name, a.val)
                           ELSE arrays
              /\ Consume(a, IF idx = Len(columns) THEN "r_columns_done" ELSE "r_columns")
    /\ idx' = idx + 1
    /\ UNCHANGED <<calls, opened, df, memory, file, writer, selector, columns, reader, header, rows,
                   series, stored>>

\* MinimalReader.read: one turn of the column loop.
MinimalReader_column ==
    /\ pc = "r_columns" /\ reader = "MinimalReader"
    /\ LET a == read_column(file, pos, columns[idx], rows)
       IN  /\ arrays' = IF a.err = "none" THEN PutArray(arrays, columns[idx].name, a.val)
                        ELSE arrays
           /\ Consume(a, IF idx = Len(columns) THEN "r_columns_done" ELSE "r_columns")
    /\ idx' = idx + 1
    /\ UNCHANGED <<calls, opened, df, memory, file, writer, selector, columns, reader, header, rows,
                   series, stored>>

\* Both readers: return pd.DataFrame(data).
Reader_return ==
    /\ pc = "r_columns_done"
    /\ result' = DataFrame(arrays)
    /\ pc' = IF result'.err = "none" THEN "r_done" ELSE "r_failed"
    /\ UNCHANGED <<calls, opened, df, memory, file, pos, writer, selector, columns, reader, header,
                   rows, arrays, idx, series, stored>>

ReadSteps ==
    \/ NewMinimalReader \/ NewCompressedReader \/ CreateReader
    \/ Reader_header
    \/ CompressedReader_definitions \/ MinimalReader_definitions
    \/ Reader_row_count
    \/ CompressedReader_column \/ MinimalReader_column
    \/ Reader_return

NextCodec ==
    \/ CompressedWriter_header \/ CompressedWriter_definitions
    \/ CompressedWriter_row_count \/ CompressedWriter_column
    \/ MinimalWriter_analyze \/ MinimalWriter_header \/ MinimalWriter_definitions
    \/ MinimalWriter_row_count \/ MinimalWriter_column
    \/ Rewind
    \/ ReadSteps

SpecCodec == InitCodec /\ [][NextCodec]_vars

(***************************************************************************)
(* Whole files.  The two write methods as one operator each, for tables of *)
(* at most one row: there value_counts() has a single order and the RAW    *)
(* encoder never meets an object column of numbers, so the bytes are       *)
(* determined by the table.                                                *)
(***************************************************************************)
\* CompressedWriter.write
CompressedWriter_write(t, sel) ==
    LET cols == [j \in 1..Len(t) |-> [name |-> t[j].name, dtype |-> from_numpy(t[j].dtype)]]
        strategy(j) ==
            select_strategy(sel, t[j], CHOOSE o \in ValueCountOrders(t[j].values) : TRUE)
    IN  ThenAll(<<write_header("COMPRESSED", Len(t)),
                  write_column_definitions(cols),
                  Ok(U32BE(RowsOf(t))),
                  ThenAll([j \in 1..Len(t) |->
                      write_compressed_column(t[j], strategy(j).type,
                                              strategy(j).metadata, FALSE)])>>)

\* MinimalWriter.write
MinimalWriter_write(t) ==
    LET cols == [j \in 1..Len(t) |-> analyze_series(t[j])]
    IN  ThenAll(<<write_header("MINIMAL", Len(cols)),
                  minimal_write_column_definitions(cols),
                  Ok(U32BE(RowsOf(t))),
                  ThenAll([j \in 1..Len(t) |-> write_column(t[j], cols[j])])>>)

(***************************************************************************)
(* Reading arbitrary streams (specification SpecStream): headers that are  *)
(* damaged or cut short, and the files the writers produce for the tables  *)
(* of at most one row.  The stream may stand after a two-byte prefix.      *)
(***************************************************************************)
BadMagic == <<72, 89, 66, 71>>

HeaderTails ==
    {<<>>} \cup {<<v>> : v \in {1, 2}}
        \cup {<<v, f>> \o r : v \in {1, 2}, f \in {0, 1, 2, 3},
                               r \in {<<>>, <<0>>, <<0, 0>>, <<0, 0, 0, 0, 0, 0>>}}

WrittenFiles ==
    {MinimalWriter_write(t).bytes : t \in {u \in Tables : RowsOf(u) <= 1}}
        \cup {CompressedWriter_write(t, DefaultSelector).bytes :
                 t \in {u \in Tables : RowsOf(u) <= 1}}

Streams ==
    {SubSeq(MAGIC_NUMBER, 1, n) : n \in 0..3}
        \cup {m \o t : m \in {MAGIC_NUMBER, BadMagic}, t \in HeaderTails}
        \cup WrittenFiles

\* What the stream holds before the position at which reading starts.
StreamPrefixes == {<<>>, <<0, 0>>, <<72, 89, 66, 70, 1, 2, 0>>}

InitStream ==
    /\ \E prefix \in StreamPrefixes, s \in Streams :
          /\ file = prefix \o s
          /\ pos = Len(prefix)
    /\ pc = "s_start"
    /\ df = <<>> /\ memory = [index |-> 0, cols |-> <<>>]
    /\ writer = "none" /\ selector = DefaultSelector
    /\ reader = "none" /\ header = <<>> /\ rows = 0 /\ arrays = <<>> /\ idx = 0
    /\ columns = <<>> /\ result = Idle /\ series = NoColumn /\ stored = <<>>
    /\ opened = Unopened /\ calls = 0

NextStream == ReadSteps

SpecStream == InitStream /\ [][NextStream]_vars

(***************************************************************************)
(* Reading a file that was cut short (specification SpecPrefix): every     *)
(* proper prefix of the files the writers produce for the tables of at     *)
(* most one row, with the table and the writer kept for comparison.        *)
(***************************************************************************)
WholeFile(t, w) ==
    IF w = "MinimalWriter" THEN MinimalWriter_write(t)
    ELSE CompressedWriter_write(t, DefaultSelector)

InitPrefix ==
    /\ df \in {u \in Tables : RowsOf(u) <= 1}
    /\ writer \in {"MinimalWriter", "CompressedWriter"}
    /\ WholeFile(df, writer).err = "none"
    /\ file \in {SubSeq(WholeFile(df, writer).bytes, 1, n) :
                    n \in 0..(Len(WholeFile(df, writer).bytes) - 1)}
    /\ pos = 0 /\ pc = "s_start"
    /\ memory = [index |-> 0, cols |-> <<>>] /\ selector = DefaultSelector
    /\ reader = "none" /\ header = <<>> /\ rows = 0 /\ arrays = <<>> /\ idx = 0
    /\ columns = <<>> /\ result = Idle /\ series = NoColumn /\ stored = <<>>
    /\ opened = Unopened /\ calls = 0

NextPrefix == ReadSteps

SpecPrefix == InitPrefix /\ [][NextPrefix]_vars

(***************************************************************************)
(* Using one object for several calls (specification SpecReuse).  The      *)
(* names a call works with (columns, idx, series, stored, arrays, header,  *)
(* rows) are kept as the previous call left them when the next one starts; *)
(* each call is given a new sink or another stream.                        *)
(***************************************************************************)
MaxCalls == 1

ReuseTables == {u \in Tables : RowsOf(u) <= 1 /\ Len(u) <= 1}

ReuseStreams ==
    {WholeFile(t, w).bytes : t \in ReuseTables, w \in {"MinimalWriter", "CompressedWriter"}}

\* MinimalReader.read and CompressedReader.read as one operator, from the
\* start of the stream.
RECURSIVE Reader_columns(_, _, _, _, _, _, _, _)
Reader_columns(rdr, bytes, p, cols, count, j, arrs, str_to_bool) ==
    IF j > Len(cols) THEN DataFrame(arrs)
    ELSE LET a == IF rdr = "MinimalReader" THEN read_column(bytes, p, cols[j], count)
                  ELSE read_compressed_column(bytes, p, cols[j].dtype, count, str_to_bool)
         IN  IF a.err # "none" THEN [err |-> a.err, table |-> <<>>]
             ELSE Reader_columns(rdr, bytes, a.pos, cols, count, j + 1,
                                 PutArray(arrs, cols[j].name, a.val), str_to_bool)

Reader_read(rdr, bytes, str_to_bool) ==
    LET h == read_header(bytes, 0)
        expected == IF rdr = "MinimalReader" THEN "MINIMAL" ELSE "COMPRESSED"
        wrong == IF rdr = "MinimalReader" THEN "Not a minimal format file"
                 ELSE "Not a compressed format file"
        d == IF rdr = "MinimalReader"
             THEN minimal_read_column_definitions(bytes, h.pos, h.val.num_columns)
             ELSE read_column_definitions(bytes, h.pos, h.val.num_columns)
        n == ReadU32(bytes, d.pos)
    IN  IF h.err # "none" THEN [err |-> h.err, table |-> <<>>]
        ELSE IF h.val.format_type # expected THEN [err |-> wrong, table |-> <<>>]
        ELSE IF d.err # "none" THEN [err |-> d.err, table |-> <<>>]
        ELSE IF n.err # "none" THEN [err |-> n.err, table |-> <<>>]
        ELSE Reader_columns(rdr, bytes, n.pos, d.val, n.val, 1, <<>>, str_to_bool)

InitReuse ==
    /\ df \in ReuseTables
    /\ writer \in {"MinimalWriter", "CompressedWriter"}
    /\ selector \in IF writer = "CompressedWriter" THEN Selectors ELSE {DefaultSelector}
    /\ pc = "w_start"
    /\ memory = [index |-> 0, cols |-> <<>>]
    /\ file = <<>> /\ pos = 0
    /\ reader = "none" /\ header = <<>> /\ rows = 0 /\ arrays = <<>> /\ idx = 0
    /\ columns = <<>> /\ result = Idle /\ series = NoColumn /\ stored = <<>>
    /\ opened = Unopened /\ calls = 0

\* writer.write(other_df, new_sink) on the writer object already used.
WriteAgain ==
    /\ pc \in {"w_done", "w_failed", "r_done", "r_failed"}
    /\ calls < MaxCalls
    /\ calls' = calls + 1
    /\ df' \in ReuseTables
    /\ file' = <<>> /\ pos' = 0
    /\ pc' = "w_start"
    /\ UNCHANGED <<memory, writer, selector, columns, reader, header, rows, arrays, idx,
                   result, series, stored, opened>>

\* reader.read(other_stream) on the reader object already used.
ReadAgain ==
    /\ pc \in {"r_done", "r_failed"}
    /\ calls < MaxCalls
    /\ calls' = calls + 1
    /\ file' \in ReuseStreams
    /\ pos' = 0
    /\ pc' = "r_start"
    /\ UNCHANGED <<df, memory, writer, selector, columns, reader, header, rows, arrays, idx,
                   result, series, stored, opened>>

NextReuse == NextCodec \/ WriteAgain \/ ReadAgain

SpecReuse == InitReuse /\ [][NextReuse]_vars

(***************************************************************************)
(* Choosing a writer (specification SpecFactory).  The tables are sized    *)
(* around the threshold: an int64 column, alone or beside a bool column,   *)
(* under names of several lengths.  A column of a fixed-width dtype takes  *)
(* itemsize bytes per row; the default RangeIndex takes 128 or 132 bytes   *)
(* with the pandas build.                                                  *)
(***************************************************************************)
FactoryRowCounts == {0, 1} \cup (436..456) \cup (490..512)

FactoryNames == {ColName(1), ColName(2), ColName(3), ColName(6), ColName(7)}

FactoryColumn(name, dtype, n) ==
    [name |-> name, dtype |-> dtype,
     values |-> [m \in 1..n |-> IF dtype = "bool" THEN BoolV(1) ELSE IntV(FromInt(1))]]

FactoryTables ==
    {<<FactoryColumn(nm, "int64", n)>> : nm \in FactoryNames, n \in FactoryRowCounts}
        \cup {<<FactoryColumn(nm, "int64", n), FactoryColumn(ColName(4), "bool", n)>> :
                 nm \in FactoryNames, n \in FactoryRowCounts}

\* df.memory_usage(deep=True): the Index first, then one entry per column.
memory_usage(t, index_bytes) ==
    [index |-> index_bytes,
     cols |-> [j \in 1..Len(t) |-> ItemSize(t[j].dtype) * Len(t[j].values)]]

InitFactory ==
    /\ df \in FactoryTables
    /\ \E index_bytes \in {128, 132} : memory = memory_usage(df, index_bytes)
    /\ pc = "f_start"
    /\ file = <<>> /\ pos = 0
    /\ writer = "none" /\ selector = DefaultSelector
    /\ reader = "none" /\ header = <<>> /\ rows = 0 /\ arrays = <<>> /\ idx = 0
    /\ columns = <<>> /\ result = Idle /\ series = NoColumn /\ stored = <<>>
    /\ opened = Unopened /\ calls = 0

\* writer = FormatFactory.create_writer(df)
CreateWriter ==
    /\ pc = "f_start"
    /\ writer' = create_writer(memory, [j \in 1..Len(df) |-> df[j].name])
    /\ pc' = "f_done"
    /\ UNCHANGED <<calls, df, memory, file, pos, selector, columns, reader, header, rows,
                   arrays, idx, result, series, stored, opened>>

NextFactory == CreateWriter

SpecFactory == InitFactory /\ [][NextFactory]_vars

(***************************************************************************)
(* The dictionary codec on one column (specification SpecDict).  A column  *)
(* lists k distinct strings, after an optional null and before up to two   *)
(* more rows; ten-row columns with one distinct string and one null reach  *)
(* the dictionary under the default thresholds as well.                    *)
(***************************************************************************)
MaxDict == 4

DictValue(j) == StrV(<<96 + j>>)

DictColumns ==
    {[name |-> ColName(1), dtype |-> "object",
      values |-> lead \o [j \in 1..k |-> DictValue(j)] \o extra] :
        lead \in {<<>>, <<Null>>},
        k \in 1..MaxDict,
        extra \in SeqsUpTo({Null, DictValue(1)}, 0, 2)}
    \cup
    {[name |-> ColName(1), dtype |-> "object",
      values |-> [j \in 1..10 |-> IF j = at THEN Null ELSE DictValue(1)]] :
        at \in {1, 5, 10}}

InitDict ==
    /\ series \in DictColumns
    /\ selector \in Selectors
    /\ pc = "d_start"
    /\ df = <<>> /\ memory = [index |-> 0, cols |-> <<>>]
    /\ file = <<>> /\ pos = 0
    /\ writer = "none" /\ reader = "none"
    /\ header = <<>> /\ rows = 0 /\ arrays = <<>> /\ idx = 0
    /\ columns = <<>> /\ result = Idle /\ stored = <<>>
    /\ opened = Unopened /\ calls = 0

\* compression_selector.select_strategy(series)
Dict_select ==
    /\ pc = "d_start"
    /\ \E order \in ValueCountOrders(series.values) :
          stored' = select_strategy(selector, series, order)
    /\ pc' = "d_selected"
    /\ UNCHANGED <<calls, df, memory, file, pos, writer, selector, columns, reader, header,
                   rows, arrays, idx, result, series, opened>>

\* BitPackedDictionaryWriter.write_dictionary(buffer, series, value_dict)
Dict_write ==
    /\ pc = "d_selected" /\ stored.type = "DICTIONARY"
    /\ LET r == write_dictionary(series.values, stored.metadata)
       IN  /\ file' = r.bytes
           /\ result' = [err |-> r.err, table |-> <<>>]
           /\ pc' = IF r.err = "none" THEN "d_written" ELSE "d_failed"
    /\ pos' = 0
    /\ UNCHANGED <<calls, df, memory, writer, selector, columns, reader, header, rows, arrays,
                   idx, series, stored, opened>>

\* BitPackedDictionaryReader.read_dictionary(buffer, row_count)
Dict_read ==
    /\ pc = "d_written"
    /\ LET r == read_dictionary(file, pos, Len(series.values))
       IN  /\ pos' = r.pos
           /\ result' = [err |-> r.err,
                         table |-> IF r.err = "none"
                                   THEN <<[name |-> series.name, dtype |-> r.val.dtype,
                                           values |-> r.val.values]>>
                                   ELSE <<>>]
           /\ pc' = IF r.err = "none" THEN "d_read" ELSE "d_failed"
    /\ UNCHANGED <<calls, df, memory, file, writer, selector, columns, reader, header, rows,
                   arrays, idx, series, stored, opened>>

NextDict == Dict_select \/ Dict_write \/ Dict_read

SpecDict == InitDict /\ [][NextDict]_vars

(***************************************************************************)
(* The bit packer row by row (specification SpecPack): the packing loop of *)
(* write_dictionary for every index width the two-byte dictionary size     *)
(* allows, over indices given directly, and the unpacking loop of          *)
(* read_dictionary on the bytes.  `stored` holds the width, the indices    *)
(* and the accumulator, `idx` the rows packed, `file` the bytes written.   *)
(***************************************************************************)
MaxBits == 16

MaxPackRows == 8

\* Indices of a width: an alternating bit pattern, the largest dictionary
\* index and the null sentinel.  Eight rows bring the accumulator through
\* every phase of every width.
IndexPool(bits_needed) ==
    {Pow2(bits_needed) \div 3, Pow2(bits_needed) - 2, Pow2(bits_needed) - 1}

InitPack ==
    /\ \E bits_needed \in 1..MaxBits :
       \E indices \in SeqsUpTo(IndexPool(bits_needed), 0, MaxPackRows) :
           stored = [bits_needed |-> bits_needed, indices |-> indices, st |-> PackStart]
    /\ pc = "p_packing" /\ idx = 0
    /\ series = NoColumn
    /\ df = <<>> /\ memory = [index |-> 0, cols |-> <<>>]
    /\ file = <<>> /\ pos = 0
    /\ writer = "none" /\ reader = "none" /\ selector = DefaultSelector
    /\ header = <<>> /\ rows = 0 /\ arrays = <<>>
    /\ columns = <<>> /\ result = Idle
    /\ opened = Unopened /\ calls = 0

\* One turn of `for value in series`.
Pack_row ==
    /\ pc = "p_packing" /\ idx < Len(stored.indices)
    /\ stored' = [stored EXCEPT
                     !.st = PackStep(@, stored.indices[idx + 1], stored.bits_needed)]
    /\ file' = stored'.st.out
    /\ idx' = idx + 1
    /\ UNCHANGED <<df, memory, pos, pc, writer, selector, columns, reader, header, rows,
                   arrays, result, series, opened, calls>>

\* After the loop: the final partial byte.
Pack_final ==
    /\ pc = "p_packing" /\ idx = Len(stored.indices)
    /\ file' = PackFinal(stored.st)
    /\ pc' = "p_packed"
    /\ UNCHANGED <<df, memory, pos, writer, selector, columns, reader, header, rows,
                   arrays, idx, result, series, stored, opened, calls>>

\* The unpacking loop of read_dictionary over the bytes written.
Unpack ==
    /\ pc = "p_packed"
    /\ rows' = Len(stored.indices)
    /\ arrays' = UnpackIndices(file, stored.bits_needed, rows')
    /\ pos' = Len(file)
    /\ pc' = "p_unpacked"
    /\ UNCHANGED <<df, memory, file, writer, selector, columns, reader, header,
                   idx, result, series, stored, opened, calls>>

NextPack == Pack_row \/ Pack_final \/ Unpack

SpecPack == InitPack /\ [][NextPack]_vars

(***************************************************************************)
(* One column through the compressed codec (specification SpecColumn): the *)
(* selector, _write_compressed_column, and _read_compressed_column called  *)
(* with the row count of the container, which a damaged or foreign file    *)
(* may declare one too small or one too large.                             *)
(***************************************************************************)
MaxRunRows == 6

EncodedColumns ==
    {[name |-> ColName(1), dtype |-> "float64", values |-> v] :
        v \in SeqsUpTo({FloatV(<<16376, 0, 0, 0>>), FloatV(<<32760, 0, 0, 0>>)},
                       0, MaxRunRows)}                      \* 1.5, NaN
    \cup {[name |-> ColName(1), dtype |-> "int64", values |-> v] :
            v \in SeqsUpTo({IntV(FromInt(1)), IntV(FromInt(-1))}, 0, 4)}
    \cup {[name |-> ColName(1), dtype |-> "bool", values |-> v] :
            v \in SeqsUpTo(CellPool("bool"), 1, 2)}
    \cup {[name |-> ColName(1), dtype |-> "float32", values |-> v] :
            v \in SeqsUpTo(CellPool("float32"), 1, 2)}
    \cup {[name |-> ColName(1), dtype |-> "object", values |-> v] :
            v \in SeqsUpTo(CellPool("object"), 1, 3)}
    \cup {[name |-> ColName(1), dtype |-> "object", values |-> v] :
            v \in SeqsUpTo({IntV(FromInt(1)), IntV(FromInt(-1))}, 2, 3)}
    \cup {[name |-> ColName(1), dtype |-> "int16", values |-> v] :
            v \in SeqsUpTo({IntV(FromInt(1)), IntV(FromInt(-1))}, 2, 2)}
    \cup {[name |-> ColName(1), dtype |-> "object",
           values |-> [j \in 1..10 |-> IF j = 10 THEN Null ELSE v]] :
            v \in CellPool("object") \ {Null}}

InitColumn ==
    /\ series \in EncodedColumns
    /\ selector \in Selectors
    /\ pc = "c_start"
    /\ df = <<>> /\ memory = [index |-> 0, cols |-> <<>>]
    /\ file = <<>> /\ pos = 0
    /\ writer = "none" /\ reader = "none"
    /\ header = <<>> /\ rows = 0 /\ arrays = <<>> /\ idx = 0
    /\ columns = <<>> /\ result = Idle /\ stored = <<>>
    /\ opened = Unopened /\ calls = 0

\* CompressedWriter.write: compression_selector.select_strategy(df[col.name])
Column_select ==
    /\ pc = "c_start"
    /\ \E order \in ValueCountOrders(series.values) :
          stored' = select_strategy(selector, series, order)
    /\ pc' = "c_selected"
    /\ UNCHANGED <<calls, df, memory, file, pos, writer, selector, columns, reader, header,
                   rows, arrays, idx, result, series, opened>>

\* CompressedWriter.write: self._write_compressed_column(file, series, ...)
Column_write ==
    /\ pc = "c_selected"
    /\ \E series_tobytes \in BOOLEAN :
          LET r == write_compressed_column(series, stored.type, stored.metadata,
                                           series_tobytes)
          IN  /\ file' = r.bytes
              /\ result' = [err |-> r.err, table |-> <<>>]
              /\ pc' = IF r.err = "none" THEN "c_written" ELSE "c_write_failed"
    /\ pos' = 0
    /\ UNCHANGED <<calls, df, memory, writer, selector, columns, reader, header, rows, arrays,
                   idx, series, stored, opened>>

\* CompressedReader.read: self._read_compressed_column(file, col.dtype, row_count)
Column_read ==
    /\ pc = "c_written"
    /\ \E count \in {n \in {Len(series.values) - 1, Len(series.values),
                            Len(series.values) + 1} : n >= 0},
          str_to_bool \in {"truthy", "error"} :
          LET r == read_compressed_column(file, pos, from_numpy(series.dtype), count,
                                          str_to_bool)
          IN  /\ rows' = count
              /\ pos' = r.pos
              /\ result' = [err |-> r.err,
                            table |-> IF r.err = "none"
                                      THEN <<[name |-> series.name, dtype |-> r.val.dtype,
                                              values |-> r.val.values]>>
                                      ELSE <<>>]
              /\ pc' = IF r.err = "none" THEN "c_read" ELSE "c_read_failed"
    /\ UNCHANGED <<calls, df, memory, file, writer, selector, columns, reader, header, arrays,
                   idx, series, stored, opened>>

NextColumn == Column_select \/ Column_write \/ Column_read

SpecColumn == InitColumn /\ [][NextColumn]_vars

(***************************************************************************)
(* C8: for an integer column with at least one value the analyzer returns  *)
(* the first of UINT8, UINT16, UINT32, INT8, INT16, INT32, INT64 whose     *)
(* range holds every value, the unsigned ones being tried first (they      *)
(* need min >= 0).                                                         *)
(***************************************************************************)
AllWithin(vals, lo, hi) ==
    \A i \in 1..Len(vals) : IntLeq(lo, vals[i].n) /\ IntLeq(vals[i].n, hi)

C8_Expected(vals) ==
    IF AllWithin(vals, FromInt(0), FromInt(255)) THEN "UINT8"
    ELSE IF AllWithin(vals, FromInt(0), FromInt(65535)) THEN "UINT16"
    ELSE IF AllWithin(vals, FromInt(0), <<0, 0, 65535, 65535>>) THEN "UINT32"
    ELSE IF AllWithin(vals, FromInt(-128), FromInt(127)) THEN "INT8"
    ELSE IF AllWithin(vals, FromInt(-32768), FromInt(32767)) THEN "INT16"
    ELSE IF AllWithin(vals, <<65535, 65535, 32768, 0>>, <<0, 0, 32767, 65535>>) THEN "INT32"
    ELSE "INT64"

C9_NarrowingLossless ==
    /\ pc = "t_stored" =>
          \A i \in 1..Len(series.values) :
              /\ stored.values[i] = series.values[i]
              /\ Len(CellBytes(stored.values[i], stored.dtype))
                     = ItemSize(get_numpy_dtype(columns[1].storage_type))
    /\ pc = "t_restored" =>
          /\ stored.dtype = series.dtype
          /\ stored.values = series.values

\* A negative value went through a one-byte storage type and came back.
C9_Witness ==
    /\ pc = "t_restored"
    /\ columns[1].storage_type = "INT8"
    /\ \E i \in 1..Len(series.values) : series.values[i].n = FromInt(-128)
    /\ stored.values = series.values


(***************************************************************************)
(* Comparing tables: nulls compare equal to nulls.                         *)
(***************************************************************************)
SameCell(a, b) == IF IsNa(a) \/ IsNa(b) THEN IsNa(a) /\ IsNa(b) ELSE a = b

SameValues(t, u) ==
    /\ Len(t) = Len(u)
    /\ \A j \in 1..Len(t) :
          /\ t[j].name = u[j].name
          /\ Len(t[j].values) = Len(u[j].values)
          /\ \A i \in 1..Len(t[j].values) : SameCell(t[j].values[i], u[j].values[i])

SameTable(t, u) ==
    /\ SameValues(t, u)
    /\ \A j \in 1..Len(t) : from_numpy(t[j].dtype) = from_numpy(u[j].dtype)

ReadEnded == pc \in {"r_done", "r_failed"}

ReadBegun ==
    pc \in {"r_header", "r_directory", "r_columns", "r_columns_done", "r_done", "r_failed"}

(***************************************************************************)
(* C1: CompressedReader.read of the bytes CompressedWriter.write produced  *)
(* for a table returns a table with the same names, the same logical type  *)
(* per column and the same value in every row, nulls at the same places.   *)
(***************************************************************************)
C1_CompressedRoundTrip ==
    (writer = "CompressedWriter" /\ reader = "CompressedReader" /\ ReadEnded)
    => (pc = "r_done" /\ SameTable(df, result.table))

\* A compressed round trip that does return the table it was given.
C1_Witness ==
    /\ writer = "CompressedWriter" /\ reader = "CompressedReader" /\ pc = "r_done"
    /\ Len(df) = 2 /\ RowsOf(df) = 3
    /\ SameTable(df, result.table)

(***************************************************************************)
(* C2: for a table whose non-null strings are non-empty, MinimalWriter     *)
(* .write succeeds and MinimalReader.read of the bytes returns a table     *)
(* equal in names, order and every value.                                  *)
(***************************************************************************)
NonEmptyStrings(t) ==
    \A j \in 1..Len(t) :
        t[j].dtype = "object" =>
            \A i \in 1..Len(t[j].values) :
                \/ IsNa(t[j].values[i])
                \/ t[j].values[i] \in {StrV(b) : b \in SeqsUpTo(Byte, 1, 1)}

C2_MinimalRoundTrip ==
    (/\ writer = "MinimalWriter" /\ NonEmptyStrings(df)
     /\ \/ pc = "w_failed"
        \/ reader = "MinimalReader" /\ ReadEnded)
    => (pc = "r_done" /\ SameValues(df, result.table))

\* A minimal round trip that does return the table it was given.
C2_Witness ==
    /\ writer = "MinimalWriter" /\ reader = "MinimalReader" /\ pc = "r_done"
    /\ NonEmptyStrings(df) /\ RowsOf(df) >= 2
    /\ SameValues(df, result.table)

(***************************************************************************)
(* C3: nothing reaches the sink before the header, and from then on the    *)
(* first eight bytes are "HYBF", version 1, format_type 1 for the minimal  *)
(* and 2 for the compressed writer, and the number of columns of the table *)
(* as a big-endian u16.                                                    *)
(***************************************************************************)
C3_HeaderFirst ==
    pc \in {"w_start", "w_analyzed", "w_header", "w_directory", "w_columns",
            "w_done", "w_failed"}
    => IF pc \in {"w_start", "w_analyzed"} THEN file = <<>>
       ELSE /\ Len(file) >= 8
            /\ SubSeq(file, 1, 8) =
                   <<72, 89, 66, 70, 1,
                     IF writer = "MinimalWriter" THEN 1 ELSE 2,
                     Len(df) \div 256, Len(df) % 256>>

C3_Witness ==
    /\ pc = "w_done" /\ Len(df) = 2 /\ RowsOf(df) > 0
    /\ Len(file) > 8 /\ file[6] = 2 /\ file[8] = 2

(***************************************************************************)
(* C4: a read of a stream whose first four bytes are not the magic fails    *)
(* with 'Invalid file format' having consumed nothing beyond the magic; a  *)
(* read of a stream with the magic and a version byte other than 1 fails   *)
(* with 'Unsupported version'.                                             *)
(***************************************************************************)
C4_HeaderValidation ==
    (opened.by # "none" /\ ReadBegun)
    => LET magic == Avail(file, opened.at, 4)
       IN  /\ magic # <<72, 89, 66, 70>>
              => /\ pc = "r_failed" /\ result = [err |-> "Invalid file format", table |-> <<>>]
                 /\ pos = opened.at + Len(magic)
           /\ (/\ magic = <<72, 89, 66, 70>>
               /\ Len(file) >= opened.at + 5
               /\ file[opened.at + 5] # 1)
              => /\ pc = "r_failed"
                 /\ result = [err |-> "Unsupported version", table |-> <<>>]

\* A wrong version reported as such: the format_type byte is there.
C4_Witness ==
    /\ pc = "r_failed" /\ result.err = "Unsupported version"
    /\ opened.at = 2 /\ file[opened.at + 5] = 2

(***************************************************************************)
(* C5: MinimalReader.read of a stream that starts with the magic, version  *)
(* 1 and format_type 2 fails with 'Not a minimal format file' whatever     *)
(* follows, and CompressedReader.read of one with format_type 1 fails with *)
(* 'Not a compressed format file'.                                         *)
(***************************************************************************)
C5_WrongContainer ==
    (/\ opened.by # "none" /\ ReadBegun
     /\ Len(file) >= opened.at + 6
     /\ SubSeq(file, opened.at + 1, opened.at + 5) = <<72, 89, 66, 70, 1>>)
    => /\ (reader = "MinimalReader" /\ file[opened.at + 6] = 2)
          => /\ pc = "r_failed"
             /\ result = [err |-> "Not a minimal format file", table |-> <<>>]
       /\ (reader = "CompressedReader" /\ file[opened.at + 6] = 1)
          => /\ pc = "r_failed"
             /\ result = [err |-> "Not a compressed format file", table |-> <<>>]

\* The wrong container reported as such: num_columns is there.
C5_Witness ==
    /\ pc = "r_failed" /\ result.err = "Not a minimal format file"
    /\ reader = "MinimalReader" /\ file[opened.at + 6] = 2

(***************************************************************************)
(* C6: create_writer returns a MinimalWriter exactly when the sum of the   *)
(* per-column byte sizes, the byte lengths of the column names, 8 and two  *)
(* bytes per column is at most 4096, and a CompressedWriter otherwise.     *)
(***************************************************************************)
C6_Estimate ==
    SumSeq(memory.cols) + SumSeq([j \in 1..Len(df) |-> Len(df[j].name)])
        + 8 + 2 * Len(df)

C6_WriterSelection ==
    pc = "f_done"
    => /\ writer = "MinimalWriter" <=> C6_Estimate <= 4096
       /\ writer = "CompressedWriter" <=> C6_Estimate > 4096

\* A table large enough for both formulas to choose the compressed writer.
C6_Witness ==
    /\ pc = "f_done" /\ writer = "CompressedWriter" /\ C6_Estimate = 4097

(***************************************************************************)
(* C7: create_reader returns a MinimalReader when the byte at offset 5 of  *)
(* the stream is 1 and a CompressedReader when it is 2, fails without a    *)
(* reader for any other value, and leaves the stream where it was when it  *)
(* returns a reader.                                                       *)
(***************************************************************************)
C7_ReaderDispatch ==
    (opened.by = "factory" /\ Len(file) >= 6)
    => /\ file[6] = 1 => (reader = "MinimalReader" /\ pc # "f_failed")
       /\ file[6] = 2 => (reader = "CompressedReader" /\ pc # "f_failed")
       /\ file[6] \notin {1, 2}
          => /\ pc = "f_failed" /\ reader = "none"
             /\ result = [err |-> "ValueError", table |-> <<>>]
       /\ pc = "r_start" => pos = opened.at

C7_Witness ==
    /\ opened = [by |-> "factory", at |-> 7]
    /\ pc = "r_start" /\ reader = "CompressedReader" /\ pos = 7

(***************************************************************************)
(* C10: a dictionary column with k distinct non-null values is written     *)
(* with dict_size = k and the least bit width b >= 1 with 2^b >= k + 1;     *)
(* every null row is written with all b bits set, and the reader returns   *)
(* null at each of those rows and at no other.                             *)
(***************************************************************************)
\* Bit n (from 0, most significant first) of a byte string.
StreamBit(b, n) == (b[(n \div 8) + 1] \div Pow2(7 - (n % 8))) % 2

IsBitWidth(b, k) == b >= 1 /\ Pow2(b) >= k + 1 /\ (b > 1 => Pow2(b - 1) < k + 1)

C10_DictionaryBitWidth ==
    /\ pc \in {"d_written", "d_read"}
       => LET vals == series.values
              k == Cardinality(DistinctValues(vals))
              b == file[3]
              packed_len == (Len(vals) * b + 7) \div 8
              packed == SubSeq(file, Len(file) - packed_len + 1, Len(file))
              AllOnes(i) == \A m \in 0..(b - 1) : StreamBit(packed, (i - 1) * b + m) = 1
          IN  /\ file[1] * 256 + file[2] = k
              /\ IsBitWidth(b, k)
              /\ \A i \in 1..Len(vals) : IsNa(vals[i]) <=> AllOnes(i)
              /\ pc = "d_read"
                 => /\ result.err = "none"
                    /\ \A i \in 1..Len(vals) :
                          AllOnes(i) <=> result.table[1].values[i] = Null
    /\ \A k \in {1, 2, 3, 4, 7, 8, 255, 256, 32767, 32768, 65534, 65535} :
          IsBitWidth(BitsNeeded(k), k)

\* Three distinct strings and a null: two bits, and the null is read back.
C10_Witness ==
    /\ pc = "d_read" /\ file[1] * 256 + file[2] = 3 /\ file[3] = 2
    /\ \E i \in 1..Len(series.values) :
          IsNa(series.values[i]) /\ result.table[1].values[i] = Null


(***************************************************************************)
(* The column codec's states in which a payload has been written, and the  *)
(* payload itself: what follows the tag and the length of the frame.       *)
(***************************************************************************)
ColumnWritten == pc \in {"c_written", "c_read", "c_read_failed"}

ColumnReadEnded == pc \in {"c_read", "c_read_failed"}

FramePayload == SubSeq(file, 6, Len(file))

\* The runs an RLE payload lists, as [value, count].
RECURSIVE RunList(_, _, _, _)
RunList(bytes, p, remaining, acc) ==
    IF remaining = 0 THEN acc
    ELSE LET value == ReadTagged(bytes, p)
             count == ReadU32(bytes, value.pos)
         IN  RunList(bytes, count.pos, remaining - 1,
                     Append(acc, [value |-> value.val, count |-> count.val]))

WrittenRuns == RunList(FramePayload, 4, ReadU32(FramePayload, 0).val, <<>>)

(***************************************************************************)
(* C11: in every RLE payload written the run lengths sum to the number of  *)
(* rows, each run length is at least 1, and two adjacent runs never carry  *)
(* the same value, two nulls counting as the same value.                   *)
(***************************************************************************)
C11_RleRuns ==
    (ColumnWritten /\ stored.type = "RLE")
    => /\ SumSeq([j \in 1..Len(WrittenRuns) |-> WrittenRuns[j].count])
             = Len(series.values)
       /\ \A j \in 1..Len(WrittenRuns) : WrittenRuns[j].count >= 1
       /\ \A j \in 1..(Len(WrittenRuns) - 1) :
             ~SameCell(WrittenRuns[j].value, WrittenRuns[j + 1].value)

\* An RLE payload with a run of nulls between runs of values.
C11_Witness ==
    /\ pc = "c_written" /\ stored.type = "RLE"
    /\ Len(WrittenRuns) = 3 /\ IsNa(WrittenRuns[2].value)
    /\ ~IsNa(WrittenRuns[1].value) /\ ~IsNa(WrittenRuns[3].value)

(***************************************************************************)
(* C12: a SINGLE_VALUE or NULL payload ends with the number of rows as a   *)
(* u32; read with another row count it fails with the length-mismatch      *)
(* error and no table, and read with the same row count it yields that     *)
(* many copies of the column's value (or nulls).                           *)
(***************************************************************************)
C12_LengthCheck ==
    (ColumnWritten /\ stored.type \in {"SINGLE_VALUE", "NULL"})
    => /\ SubSeq(file, Len(file) - 3, Len(file)) = U32BE(Len(series.values))
       /\ (ColumnReadEnded /\ rows # Len(series.values))
          => /\ pc = "c_read_failed"
             /\ result = [err |-> "Length mismatch", table |-> <<>>]
       /\ (ColumnReadEnded /\ rows = Len(series.values))
          => /\ pc = "c_read"
             /\ Len(result.table[1].values) = rows
             /\ \A i \in 1..rows :
                   SameCell(result.table[1].values[i], series.values[i])

\* A SINGLE_VALUE payload read under a row count it does not declare.
C12_Witness ==
    /\ pc = "c_read_failed" /\ stored.type = "SINGLE_VALUE"
    /\ rows = Len(series.values) + 1
    /\ result.err = "Length mismatch"

(***************************************************************************)
(* C13: an RLE payload whose run lengths do not sum to the row count of    *)
(* the container is refused with the length-mismatch error, and no column  *)
(* of another length than the row count is ever returned.                  *)
(***************************************************************************)
C13_RleLengthCheck ==
    (ColumnReadEnded /\ stored.type = "RLE")
    => /\ rows # Len(series.values)
          => /\ pc = "c_read_failed"
             /\ result = [err |-> "Length mismatch", table |-> <<>>]
       /\ pc = "c_read" => Len(result.table[1].values) = rows

\* An RLE payload read under the row count it was written for.
C13_Witness ==
    /\ pc = "c_read" /\ stored.type = "RLE"
    /\ rows = Len(series.values) /\ Len(result.table[1].values) = rows /\ rows >= 2


(***************************************************************************)
(* C14: the selector returns NULL for a column of nulls only; else         *)
(* SINGLE_VALUE for one distinct value and no null; else DICTIONARY for a  *)
(* string column whose distinct values are at most uniqueness_threshold of *)
(* the rows; else RLE for a numeric column whose runs are at most          *)
(* redundancy_threshold of the rows; else RAW.  A run is a maximal span of *)
(* equal values, nulls being equal to nulls.                               *)
(***************************************************************************)
MaximalRuns(vals) ==
    Cardinality({i \in 1..Len(vals) : i = 1 \/ ~SameCell(vals[i], vals[i - 1])})

C14_Expected(sel, col) ==
    LET vals == col.values
        R == Len(vals)
        k == Cardinality({vals[i] : i \in {j \in 1..R : ~IsNa(vals[j])}})
    IN  IF \A i \in 1..R : IsNa(vals[i]) THEN "NULL"
        ELSE IF k = 1 /\ \A i \in 1..R : ~IsNa(vals[i]) THEN "SINGLE_VALUE"
        ELSE IF /\ col.dtype = "object"
                /\ k * sel.uniqueness_threshold.den <= sel.uniqueness_threshold.num * R
             THEN "DICTIONARY"
        ELSE IF /\ col.dtype \in {"int32", "int64", "float32", "float64"}
                /\ MaximalRuns(vals) * sel.redundancy_threshold.den
                       <= sel.redundancy_threshold.num * R
             THEN "RLE"
        ELSE "RAW"

C14_DecisionOrder ==
    pc \in {"c_selected", "c_written", "c_write_failed", "c_read", "c_read_failed"}
    => stored.type = C14_Expected(selector, series)

\* RLE chosen with the runs at exactly half the rows, under the defaults.
C14_Witness ==
    /\ pc = "c_selected" /\ selector = DefaultSelector /\ stored.type = "RLE"
    /\ MaximalRuns(series.values) * 2 = Len(series.values)
    /\ C14_Expected(selector, series) = "RLE"

(***************************************************************************)
(* C15: RLE is never selected for a string column and DICTIONARY only for  *)
(* a column whose non-null values are all strings, and every column sent   *)
(* to DICTIONARY, RLE or SINGLE_VALUE is written and decodes to its        *)
(* original values, each of its original type.                             *)
(***************************************************************************)
C15_FaithfulEncoding ==
    pc \in {"c_selected", "c_written", "c_write_failed", "c_read", "c_read_failed"}
    => /\ stored.type = "RLE" => series.dtype # "object"
       /\ stored.type = "DICTIONARY"
          => \A i \in 1..Len(series.values) :
                IsNa(series.values[i]) \/ series.values[i].k = "str"
       /\ stored.type \in {"DICTIONARY", "RLE", "SINGLE_VALUE"}
          => /\ pc # "c_write_failed"
             /\ (ColumnReadEnded /\ rows = Len(series.values))
                => /\ pc = "c_read"
                   /\ SameValues(<<series>>, result.table)

\* A dictionary column of strings and a null that decodes to itself.
C15_Witness ==
    /\ pc = "c_read" /\ stored.type = "DICTIONARY" /\ rows = Len(series.values)
    /\ AnyNa(series.values) /\ Len(series.values) = 3
    /\ SameValues(<<series>>, result.table)


(***************************************************************************)
(* C17: in the compressed container every column is a tag byte, the        *)
(* payload length as a big-endian u32 and that many payload bytes; the     *)
(* writer's file ends where the last frame ends, and the reader stands at  *)
(* the end of the i-th frame once it has decoded i columns.                *)
(***************************************************************************)
\* Where the columns start: header, directory and row count come first.
FramesStart == 8 + SumSeq([j \in 1..Len(df) |-> 2 + Len(df[j].name)]) + 4

FrameLength(bytes, p) ==
    bytes[p + 2] * 16777216 + bytes[p + 3] * 65536 + bytes[p + 4] * 256 + bytes[p + 5]

\* The position after n frames from p, or -1 if the bytes are no n frames.
RECURSIVE FramesEnd(_, _, _)
FramesEnd(bytes, p, n) ==
    IF n = 0 THEN p
    ELSE IF p + 5 > Len(bytes) \/ bytes[p + 1] \notin 1..5 THEN -1
    ELSE IF p + 5 + FrameLength(bytes, p) > Len(bytes) THEN -1
    ELSE FramesEnd(bytes, p + 5 + FrameLength(bytes, p), n - 1)

C17_ColumnFraming ==
    /\ (writer = "CompressedWriter" /\ pc \in {"w_columns", "w_done"})
       => FramesEnd(file, FramesStart, IF pc = "w_done" THEN Len(df) ELSE idx - 1)
              = Len(file)
    /\ (/\ writer = "CompressedWriter" /\ reader = "CompressedReader"
        /\ pc \in {"r_columns", "r_columns_done", "r_done"})
       => pos = FramesEnd(file, FramesStart, idx - 1)

\* The reader between two columns, at the tag of the second.
C17_Witness ==
    /\ writer = "CompressedWriter" /\ reader = "CompressedReader"
    /\ pc = "r_columns" /\ idx = 2 /\ RowsOf(df) >= 2
    /\ pos = FramesStart + 5 + FrameLength(file, FramesStart)
    /\ pos < Len(file) /\ file[pos + 1] \in 1..5


(***************************************************************************)
(* C18: every numeric column of the minimal container takes R times the    *)
(* logical width, or the bitmap and the non-null values in the logical     *)
(* width when it is nullable.                                              *)
(***************************************************************************)
LogicalWidth(col_info) == ItemSize(to_numpy(col_info.logical_type))

NullCount(vals) == Cardinality({j \in 1..Len(vals) : IsNa(vals[j])})

LogicalPayload(vals, col_info) ==
    IF col_info.nullable
    THEN ((Len(vals) + 7) \div 8) + (Len(vals) - NullCount(vals)) * LogicalWidth(col_info)
    ELSE Len(vals) * LogicalWidth(col_info)

C18_LogicalWidth ==
    [][(MinimalWriter_column /\ columns[idx].logical_type # "STRING")
          => Len(file') - Len(file) = LogicalPayload(df[idx].values, columns[idx])]_vars

\* A numeric column that the minimal writer has just written.
C18_Witness ==
    /\ writer = "MinimalWriter" /\ pc \in {"w_columns", "w_done"}
    /\ idx >= 2 /\ series = df[idx - 1] /\ Len(series.values) >= 2
    /\ columns[idx - 1].logical_type # "STRING"


(***************************************************************************)
(* C19: in the minimal container a null and an empty string are both the   *)
(* one length byte 0, and a length byte 0 reads as null: an empty string   *)
(* comes back as null and every other string comes back as itself.         *)
(***************************************************************************)
AllStrings(t) == \A j \in 1..Len(t) : t[j].dtype = "object"

\* Where the minimal writer's columns start: header, directory, row count.
MinimalStart == 8 + SumSeq([j \in 1..Len(df) |-> 3 + Len(df[j].name)]) + 4

ReadsAsNull(v) == IsNa(v) \/ StrBytes(v) = <<>>

LengthPrefixed(v) ==
    IF ReadsAsNull(v) THEN <<0>> ELSE <<Len(StrBytes(v))>> \o StrBytes(v)

StringPayload(c) == Flatten([i \in 1..Len(c.values) |-> LengthPrefixed(c.values[i])])

OptimizedNumericWritten ==
    /\ ColumnWritten /\ stored.type = "RAW" /\ series.dtype = "object"
    /\ FramePayload[1] = 1

NameTooLong == \E j \in 1..Len(df) : Len(df[j].name) > MaxNameBytes

C21_PreEmission ==
    (pc = "w_failed" /\ NameTooLong) => (file = <<>> /\ pos = 0)

\* A write that has failed on the length byte of a name.
C21_Witness ==
    pc = "w_failed" /\ NameTooLong /\ result.err = "struct.error"


(***************************************************************************)
(* C22: reading a proper prefix of a written file with the reader of its   *)
(* container never returns a table.                                        *)
(***************************************************************************)
MatchingReader ==
    \/ writer = "MinimalWriter" /\ reader = "MinimalReader"
    \/ writer = "CompressedWriter" /\ reader = "CompressedReader"

C22_TruncationFails ==
    (MatchingReader /\ Len(file) < Len(WholeFile(df, writer).bytes))
        => pc # "r_done"

\* A read of a file cut after its header that has come to its end.
C22_Witness ==
    /\ MatchingReader /\ ReadEnded
    /\ Len(file) < Len(WholeFile(df, writer).bytes) /\ Len(file) > 8


(***************************************************************************)
(* C23: a writer or reader object used for a further call behaves as a new *)
(* one: the bytes of a finished write are those of the table and the       *)
(* selector alone, the outcome of a finished read is that of the stream    *)
(* alone, and a running write changes neither its table nor its selector.  *)
(***************************************************************************)
FreshWrite ==
    IF writer = "MinimalWriter" THEN MinimalWriter_write(df)
    ELSE CompressedWriter_write(df, selector)

WriteRunning == pc \in {"w_start", "w_analyzed", "w_header", "w_directory", "w_columns"}

C23_NoStateAcrossCalls ==
    /\ [](pc = "w_done" => (FreshWrite.err = "none" /\ file = FreshWrite.bytes))
    /\ [](pc \in {"r_done", "r_failed"} =>
             \E str_to_bool \in {"truthy", "error"} :
                 result = Reader_read(reader, file, str_to_bool))
    /\ [][WriteRunning => (df' = df /\ selector' = selector /\ writer' = writer)]_vars

\* A further write on a used writer that has come to its end.
C23_Witness ==
    /\ calls >= 1 /\ pc = "w_done" /\ RowsOf(df) = 1
    /\ Len(columns) = 1 /\ reader # "none"


(***************************************************************************)
(* C24: a column without a non-null value is given the default storage     *)
(* type of its logical type: INT32 for the integers, FLOAT64 for the       *)
(* floats, STRING for the strings.                                         *)
(***************************************************************************)
\* The claim names one default per kind; float32 and bool columns are left
\* out of the comparison.
DefaultStorage(logical_type) ==
    CASE logical_type \in {"INT32", "INT64"} -> "INT32"
      [] logical_type = "FLOAT64" -> "FLOAT64"
      [] logical_type = "STRING" -> "STRING"

NoValues(c) == \A i \in 1..Len(c.values) : IsNa(c.values[i])

Analyzed == writer = "MinimalWriter" /\ pc = "w_analyzed"

C24_EmptyDefault ==
    Analyzed =>
        \A j \in 1..Len(df) :
            (NoValues(df[j]) /\ columns[j].logical_type \notin {"BOOLEAN", "FLOAT32"})
                => columns[j].storage_type = DefaultStorage(columns[j].logical_type)

\* An analysed table with an empty integer or float column, or an all-null one.
C24_Witness ==
    /\ Analyzed /\ Len(df) >= 1 /\ NoValues(df[1])
    /\ columns[1].logical_type \in {"INT64", "FLOAT64"}


(***************************************************************************)
(* C25: the sink receives the header, one directory entry per column in    *)
(* table order, the row count and then one payload per column in the order *)
(* of the directory; what has been written is never changed, and the       *)
(* readers take the sections in the same order.                            *)
(***************************************************************************)
IsPrefix(a, b) == Len(a) <= Len(b) /\ SubSeq(b, 1, Len(a)) = a

PayloadsStart == IF writer = "MinimalWriter" THEN MinimalStart ELSE FramesStart

\* The names of the directory as the matching reader parses them.
DirectoryNames ==
    LET d == IF writer = "MinimalWriter"
             THEN minimal_read_column_definitions(file, 8, Len(df))
             ELSE read_column_definitions(file, 8, Len(df))
    IN  IF d.err # "none" THEN <<"unreadable">>
        ELSE [j \in 1..Len(d.val) |-> d.val[j].name]

SectionsInOrder ==
    /\ pc \in {"w_start", "w_analyzed"} => file = <<>>
    /\ pc \in {"w_header", "w_directory", "w_columns", "w_done"} =>
           read_header(file, 0).val.num_columns = Len(df)
    /\ pc = "w_header" => Len(file) = 8
    /\ pc \in {"w_directory", "w_columns", "w_done"} =>
           DirectoryNames = [j \in 1..Len(df) |-> df[j].name]
    /\ pc = "w_directory" => Len(file) = PayloadsStart - 4
    /\ pc \in {"w_columns", "w_done"} =>
           /\ Len(file) >= PayloadsStart
           /\ ReadU32(file, PayloadsStart - 4).val = RowsOf(df)
           /\ pc = "w_done" => idx - 1 = Len(df)
           /\ (pc = "w_done" /\ writer = "CompressedWriter") =>
                  FramesEnd(file, PayloadsStart, Len(df)) = Len(file)
           /\ (pc = "w_columns" /\ idx = 1) => Len(file) = PayloadsStart
    /\ (MatchingReader /\ writer # "none") =>
           /\ pc = "r_header" => pos = 8
           /\ pc = "r_directory" => pos = PayloadsStart - 4
           /\ (pc \in {"r_columns", "r_columns_done"} /\ idx = 1) => pos = PayloadsStart

C25_EmissionOrder ==
    /\ []SectionsInOrder
    /\ [][(WriteRunning => IsPrefix(file, file'))
          /\ ((pc = "w_columns" /\ pc' # "w_failed") =>
                 (/\ idx' = idx + 1 /\ series' = df[idx]
                  /\ DirectoryNames[idx] = series'.name
                  /\ Len(file') >= Len(file)))
          /\ ((ReadBegun /\ pc' \in {"r_directory", "r_columns", "r_columns_done"}
                 /\ MatchingReader /\ writer # "none") => pos' >= pos)]_vars

\* Two columns written, the second after the first.
C25_Witness ==
    /\ pc = "w_done" /\ Len(df) = 2 /\ RowsOf(df) >= 1 /\ idx = 3
    /\ series = df[2] /\ Len(file) > PayloadsStart


(***************************************************************************)
(* C26: R indices of b bits are packed into ceil(R*b/8) bytes which, read  *)
(* most significant bit first, are the indices in row order followed by    *)
(* zero bits; the reader recovers the R indices.                           *)
(***************************************************************************)
Packed == pc \in {"p_packed", "p_unpacked"}

\* Bit t (from 0, most significant first) of an index of the given width.
IndexBit(index, width, t) == (index \div Pow2(width - 1 - t)) % 2

C26_IndexPacking ==
    /\ Packed =>
           LET b == stored.bits_needed
               R == Len(stored.indices)
           IN  /\ Len(file) = (R * b + 7) \div 8
               /\ \A i \in 1..R : \A t \in 0..(b - 1) :
                      StreamBit(file, (i - 1) * b + t) = IndexBit(stored.indices[i], b, t)
               /\ \A n \in (R * b)..(8 * Len(file) - 1) : StreamBit(file, n) = 0
    /\ pc = "p_unpacked" => arrays = stored.indices

\* Three indices of three bits: nine bits, the second byte partial.
C26_Witness ==
    /\ pc = "p_unpacked" /\ stored.bits_needed = 3 /\ Len(stored.indices) = 3
    /\ stored.indices[3] = 7 /\ Len(file) = 2 /\ arrays[3] = 7

(***************************************************************************)
(* C27: the accumulator starts empty, and after i rows it holds            *)
(* (i*b) mod 8 pending bits, fewer than 8, with current_byte below         *)
(* 2^bits_in_byte, and floor(i*b/8) bytes have been written.               *)
(***************************************************************************)
C27_Accumulator ==
    pc = "p_packing" =>
        LET b == stored.bits_needed
            st == stored.st
        IN  /\ idx = 0 => (st.current_byte = 0 /\ st.bits_in_byte = 0 /\ file = <<>>)
            /\ st.bits_in_byte \in 0..7
            /\ st.current_byte >= 0 /\ st.current_byte < Pow2(st.bits_in_byte)
            /\ st.bits_in_byte = (idx * b) % 8
            /\ Len(file) = (idx * b) \div 8

\* Two rows of eleven bits packed: two bytes written, six bits pending.
C27_Witness ==
    /\ pc = "p_packing" /\ stored.bits_needed = 11 /\ idx = 2
    /\ Len(file) = 2 /\ stored.st.bits_in_byte = 6 /\ stored.st.current_byte > 0


(***************************************************************************)
(* C28: the index written for a non-null value lies in 0..k-1 and below    *)
(* the null sentinel 2^b - 1, for every dictionary size k in 1..65535; no  *)
(* non-null value is read as null and the reader looks up no index outside *)
(* the dictionary.                                                         *)
(***************************************************************************)
MaxDictSize == 65535

\* The indices in the bytes written for the column, as the reader unpacks them.
WrittenIndices ==
    LET R == Len(series.values)
        packed_len == (R * file[3] + 7) \div 8
    IN  UnpackIndices(SubSeq(file, Len(file) - packed_len + 1, Len(file)), file[3], R)

C28_NoSentinelCollision ==
    /\ pc \in {"d_written", "d_read"} =>
           LET k == file[1] * 256 + file[2]
               null_value == Pow2(file[3]) - 1
           IN  /\ k = Len(stored.metadata)
               /\ \A i \in 1..Len(series.values) :
                      IF IsNa(series.values[i]) THEN WrittenIndices[i] = null_value
                      ELSE /\ WrittenIndices[i] \in 0..(k - 1)
                           /\ WrittenIndices[i] < null_value
                           /\ stored.metadata[WrittenIndices[i] + 1] = series.values[i]
               /\ pc = "d_read" =>
                      /\ result.err = "none"
                      /\ \A i \in 1..Len(series.values) :
                             ~IsNa(series.values[i]) => result.table[1].values[i] # Null
    \* the width for every dictionary size, evaluated in the two-row columns
    /\ (pc = "d_written" /\ Len(series.values) = 2) =>
           \A k \in 1..MaxDictSize : k - 1 < Pow2(BitsNeeded(k)) - 1

\* Three values, two bits: the largest index 2 is next to the sentinel 3.
C28_Witness ==
    /\ pc = "d_read" /\ file[1] * 256 + file[2] = 3 /\ file[3] = 2
    /\ \E i, j \in 1..Len(series.values) :
           /\ WrittenIndices[i] = 2 /\ result.table[1].values[i] # Null
           /\ WrittenIndices[j] = 3 /\ result.table[1].values[j] = Null


(***************************************************************************)
(* C29: the null bitmap of a RAW payload has ceil(R/8) bytes, bit (i mod 8)*)
(* of byte (i div 8), from the least significant, is set iff row i is      *)
(* null, the padding bits are zero, and R minus the number of set bits is  *)
(* the number of values that follow the bitmap.                            *)
(***************************************************************************)
\* Bit i (rows from 0, least significant bit first) of a bitmap.
LsbBit(bitmap, i) == (bitmap[(i \div 8) + 1] \div Pow2(i % 8)) % 2

SetBits(bitmap) == Cardinality({i \in 0..(8 * Len(bitmap) - 1) : LsbBit(bitmap, i) = 1})

WellFormedBitmap(bitmap, vals) ==
    /\ Len(bitmap) = (Len(vals) + 7) \div 8
    /\ \A i \in 0..(8 * Len(bitmap) - 1) :
           LsbBit(bitmap, i) = 1 <=> (i < Len(vals) /\ IsNa(vals[i + 1]))

\* How many length-prefixed strings lie in the bytes from p, or -1.
RECURSIVE CountRawStrings(_, _)
CountRawStrings(bytes, p) ==
    IF p = Len(bytes) THEN 0
    ELSE IF p + 2 > Len(bytes) THEN -1
    ELSE LET next == p + 2 + bytes[p + 1] * 256 + bytes[p + 2]
             rest == IF next > Len(bytes) THEN -1 ELSE CountRawStrings(bytes, next)
         IN  IF rest < 0 THEN -1 ELSE 1 + rest

RawObjectWritten == ColumnWritten /\ stored.type = "RAW" /\ series.dtype = "object"

RawWritten == ColumnWritten /\ stored.type = "RAW"

C30_MarkerAgreement ==
    RawWritten =>
        /\ (series.dtype = "object") <=> (from_numpy(series.dtype) = "STRING")
        /\ series.dtype # "object" =>
               Len(FramePayload) = Len(series.values) * ItemSize(series.dtype)

\* A RAW column of a dtype that the directory cannot name.
C30_Witness ==
    /\ RawWritten /\ series.dtype = "int16"
    /\ Len(FramePayload) = 2 * Len(series.values)

====
